---- MODULE Spec2Model ----
(***************************************************************************)
(* A model of gpandas: the null-aware Series (utils/collection), the       *)
(* DataFrame structure operations (Rename, Select, SelectCol, SetIndex,    *)
(* ResetIndex) and the hash-join Merge engine.                             *)
(*                                                                         *)
(* Conventions.  Go slices are 0-based, TLA+ sequences are 1-based: row i  *)
(* of the source is position i+1 here.  A boxed Go value (any) is a        *)
(* record [t, v]: its dynamic type and an integer code of its value; the   *)
(* untyped nil is NilV.  Two boxed values are equal as Go map keys exactly *)
(* when the records are equal.                                             *)
(***************************************************************************)
EXTENDS Integers, Sequences, FiniteSets, TLC

VARIABLES
    left,      \* Merge: the receiver DataFrame (df)
    right,     \* Merge: the argument DataFrame (other)
    call,      \* the arguments of the last operation
    result,    \* what the last operation returned
    frame,     \* DataFrame operations: the DataFrame under test
    view,      \* DataFrame operations: the last DataFrame returned by Select
    heap,      \* DataFrame operations: the Series objects, by identity
    threads,   \* concurrent runs: each thread's operation and position in it
    locks      \* concurrent runs: the state of every reader/writer lock

vars == <<left, right, call, result, frame, view, heap, threads, locks>>

(***************************************************************************)
(* Bounds                                                                  *)
(***************************************************************************)
MaxRows == 3      \* rows of a Merge input
MaxArgRows == 2   \* rows of a Merge input in the runs over every argument
MaxLen == 2       \* length a Series may reach through Append
MaxRenames == 2   \* entries of a Rename mapping
MaxSelect == 2    \* column names of a Select call
MaxThreads == 2   \* threads of a concurrent run
MaxGroupRows == 3 \* rows of a GroupBy input
MantissaBits == 2 \* bits of the significand of a float64 (53 in Go)

(***************************************************************************)
(* Boxed values                                                            *)
(***************************************************************************)
Val(t, v) == [t |-> t, v |-> v]

NilV == [t |-> "nil", v |-> 0]

\* the zero value a typed Series stores in a null slot
Zero(dtype) == IF dtype = "any" THEN NilV ELSE Val(dtype, 0)

Range(s) == {s[p] : p \in DOMAIN s}

RECURSIVE FlattenSeq(_)
FlattenSeq(ss) == IF Len(ss) = 0 THEN <<>> ELSE Head(ss) \o FlattenSeq(Tail(ss))

\* position of the first element of s equal to x, 0 when absent
FirstIndex(s, x) ==
    IF \E p \in DOMAIN s : s[p] = x
    THEN CHOOSE p \in DOMAIN s : s[p] = x /\ \A q \in 1..(p - 1) : s[q] # x
    ELSE 0

(***************************************************************************)
(* Series (utils/collection): data slice plus null mask                    *)
(***************************************************************************)
NilSeries == [dtype |-> "nil", data |-> <<>>, mask |-> <<>>]

\* the variant NewSeriesOfType picks for a reflect.Type: Int as Int64, and
\* every kind without a typed variant as AnySeries
VariantOf(t) ==
    IF t \in {"float64", "int64", "string", "bool"} THEN t
    ELSE IF t = "int" THEN "int64"
    ELSE "any"

NewSeriesOfType(t) == [dtype |-> VariantOf(t), data |-> <<>>, mask |-> <<>>]

SeriesLen(s) == Len(s.data)

DType(s) == s.dtype

\* mutant: the mask is never consulted
IsNullRangeOnly(s, p) == p < 1 \/ p > Len(s.mask)

IsNull(s, p) == IF p < 1 \/ p > Len(s.mask) THEN TRUE ELSE s.mask[p]

At(s, p) ==
    IF p < 1 \/ p > Len(s.data) THEN [val |-> NilV, err |-> TRUE]
    ELSE IF s.mask[p] THEN [val |-> NilV, err |-> FALSE]
    ELSE [val |-> s.data[p], err |-> FALSE]

AppendNull(s) ==
    [s EXCEPT !.data = Append(@, Zero(s.dtype)), !.mask = Append(@, TRUE)]

\* what a Series write returns: the Series after it, whether it failed and
\* with which error
Wrote(s) == [s |-> s, err |-> FALSE, msg |-> ""]

Failed(s, msg) == [s |-> s, err |-> TRUE, msg |-> msg]

\* mutant: a value of another type is appended all the same
SeriesAppendUnchecked(s, v) ==
    IF v = NilV THEN Wrote(AppendNull(s))
    ELSE IF s.dtype # "any" /\ v.t # s.dtype
    THEN Failed([s EXCEPT !.data = Append(@, v), !.mask = Append(@, FALSE)],
                "type mismatch")
    ELSE Wrote([s EXCEPT !.data = Append(@, v), !.mask = Append(@, FALSE)])

\* Append: nil appends a null; otherwise the dynamic type must be the
\* variant's element type (AnySeries takes every value)
SeriesAppend(s, v) ==
    IF v = NilV THEN Wrote(AppendNull(s))
    ELSE IF s.dtype # "any" /\ v.t # s.dtype THEN Failed(s, "type mismatch")
    ELSE Wrote([s EXCEPT !.data = Append(@, v), !.mask = Append(@, FALSE)])

SetNull(s, p) ==
    IF p < 1 \/ p > Len(s.data) THEN Failed(s, "index out of range")
    ELSE Wrote([s EXCEPT !.data[p] = Zero(s.dtype), !.mask[p] = TRUE])

SeriesSet(s, p, v) ==
    IF p < 1 \/ p > Len(s.data) THEN Failed(s, "index out of range")
    ELSE IF v = NilV THEN SetNull(s, p)
    ELSE IF s.dtype # "any" /\ v.t # s.dtype THEN Failed(s, "type mismatch")
    ELSE Wrote([s EXCEPT !.data[p] = v, !.mask[p] = FALSE])

RECURSIVE AppendAll(_, _, _)
AppendAll(s, values, k) ==
    IF k > Len(values) THEN [s |-> s, err |-> FALSE]
    ELSE LET r == IF values[k] = NilV
                  THEN [s |-> AppendNull(s), err |-> FALSE]
                  ELSE SeriesAppend(s, values[k])
         IN  IF r.err THEN [s |-> NilSeries, err |-> TRUE]
             ELSE AppendAll(r.s, values, k + 1)

\* NewSeriesWithData: appends the values one by one, nil as null; the
\* first value of another type fails the construction
NewSeriesWithData(t, values) == AppendAll(NewSeriesOfType(t), values, 1)

\* NewAnySeriesFromData: copies data and mask as given
NewAnySeriesFromData(data, mask) ==
    IF Len(data) # Len(mask) THEN [s |-> NilSeries, err |-> TRUE]
    ELSE [s |-> [dtype |-> "any", data |-> data, mask |-> mask], err |-> FALSE]

(***************************************************************************)
(* DataFrame                                                               *)
(***************************************************************************)
NilDF == [nil |-> TRUE, Columns |-> <<>>, ColumnOrder |-> <<>>, Index |-> <<>>]

DataFrame(cols, order, index) ==
    [nil |-> FALSE, Columns |-> cols, ColumnOrder |-> order, Index |-> index]

HasColumn(df, name) == name \in DOMAIN df.Columns

\* "%d" of a 0-based row number
DefaultIndex(n) == [p \in 1..n |-> ToString(p - 1)]

(***************************************************************************)
(* Merge (dataframe/merge.go)                                              *)
(*                                                                         *)
(* A staged mergeRow carries, besides values and nulls, two history fields *)
(* the code does not have: li and ri, the left and right source rows it    *)
(* was built from (0: none).  They are read by the properties only.        *)
(***************************************************************************)
mergeRow(values, nulls, li, ri) ==
    [values |-> values, nulls |-> nulls, li |-> li, ri |-> ri]

\* the row count Merge uses: the shortest column (0 without columns)
RowCount(df) ==
    IF Len(df.ColumnOrder) > 0 /\ HasColumn(df, df.ColumnOrder[1])
    THEN LET lens == {SeriesLen(df.Columns[df.ColumnOrder[c]]) :
                        c \in {c \in DOMAIN df.ColumnOrder :
                                 HasColumn(df, df.ColumnOrder[c])}}
         IN  CHOOSE n \in lens : \A m \in lens : n <= m
    ELSE 0

\* the lookup map[any][]int over a key column: a non-null key -> the
\* positions holding it, ascending; null keys are left out
BuildKeyMap(keySeries, rows) ==
    LET live == {p \in 1..rows : ~IsNull(keySeries, p)}
        keys == {At(keySeries, p).val : p \in live}
    IN  [k \in keys |->
            SelectSeq([p \in 1..rows |-> p],
                      LAMBDA p : p \in live /\ At(keySeries, p).val = k)]

\* map lookup: the nil slice for an absent key
Lookup(m, key) == IF key \in DOMAIN m THEN m[key] ELSE <<>>

\* "Add left row values": every column of df1 at row p
LeftValues(df1, p) ==
    [c \in DOMAIN df1.ColumnOrder |-> At(df1.Columns[df1.ColumnOrder[c]], p).val]

LeftNulls(df1, p) ==
    [c \in DOMAIN df1.ColumnOrder |-> IsNull(df1.Columns[df1.ColumnOrder[c]], p)]

\* "Add right row values (excluding key)"
RightCols(df2, on) == SelectSeq(df2.ColumnOrder, LAMBDA col : col # on)

RightValues(df2, on, p) ==
    LET cs == RightCols(df2, on)
    IN  [c \in DOMAIN cs |-> At(df2.Columns[cs[c]], p).val]

RightNulls(df2, on, p) ==
    LET cs == RightCols(df2, on)
    IN  [c \in DOMAIN cs |-> IsNull(df2.Columns[cs[c]], p)]

\* a left row joined with a right row
JoinedRow(df1, df2, on, lp, rp) ==
    mergeRow(LeftValues(df1, lp) \o RightValues(df2, on, rp),
             LeftNulls(df1, lp) \o RightNulls(df2, on, rp), lp, rp)

\* a left row without a match: rightColCount nulls follow the left values
LeftOnlyRow(df1, df2, lp) ==
    LET rightColCount == Len(df2.ColumnOrder) - 1
    IN  mergeRow(LeftValues(df1, lp) \o [j \in 1..rightColCount |-> NilV],
                 LeftNulls(df1, lp) \o [j \in 1..rightColCount |-> TRUE], lp, 0)

\* mutant: the key column of an unmatched right row is null-filled too
RightOnlyRowAllNull(df1, df2, on, rp, key, isNullKey) ==
    mergeRow([c \in DOMAIN df1.ColumnOrder |-> NilV] \o RightValues(df2, on, rp),
             [c \in DOMAIN df1.ColumnOrder |-> TRUE] \o RightNulls(df2, on, rp),
             0, rp)

\* a right row without a match: nulls for the left columns, except that
\* the key column takes the right row's key
RightOnlyRow(df1, df2, on, rp, key, isNullKey) ==
    LET leftKeyIdx == FirstIndex(df1.ColumnOrder, on)
    IN  mergeRow([c \in DOMAIN df1.ColumnOrder |->
                     IF c = leftKeyIdx THEN key ELSE NilV]
                 \o RightValues(df2, on, rp),
                 [c \in DOMAIN df1.ColumnOrder |->
                     IF c = leftKeyIdx THEN isNullKey ELSE TRUE]
                 \o RightNulls(df2, on, rp), 0, rp)

\* mutant: a matched left row is joined with its first match only
performInnerMergeFirstMatch(df1, df2, on, df2Map, leftRows, rightRows) ==
    LET leftKeySeries == df1.Columns[on]
        rowsOf(p) ==
            IF IsNull(leftKeySeries, p) THEN <<>>
            ELSE LET matches == Lookup(df2Map, At(leftKeySeries, p).val)
                 IN  IF Len(matches) > 0
                     THEN <<JoinedRow(df1, df2, on, p, matches[1])>>
                     ELSE <<>>
    IN  FlattenSeq([p \in 1..leftRows |-> rowsOf(p)])

performInnerMerge(df1, df2, on, df2Map, leftRows, rightRows) ==
    LET leftKeySeries == df1.Columns[on]
        rowsOf(p) ==
            IF IsNull(leftKeySeries, p) THEN <<>>
            ELSE LET matches == Lookup(df2Map, At(leftKeySeries, p).val)
                 IN  [k \in DOMAIN matches |->
                         JoinedRow(df1, df2, on, p, matches[k])]
    IN  FlattenSeq([p \in 1..leftRows |-> rowsOf(p)])

\* mutant: the branch that keeps an unmatched left row is missing
performLeftMergeDropUnmatched(df1, df2, on, df2Map, leftRows, rightRows) ==
    LET leftKeySeries == df1.Columns[on]
        rowsOf(p) ==
            LET isNullKey == IsNull(leftKeySeries, p)
                matches == IF ~isNullKey
                           THEN Lookup(df2Map, At(leftKeySeries, p).val)
                           ELSE <<>>
            IN  [k \in DOMAIN matches |-> JoinedRow(df1, df2, on, p, matches[k])]
    IN  FlattenSeq([p \in 1..leftRows |-> rowsOf(p)])

performLeftMerge(df1, df2, on, df2Map, leftRows, rightRows) ==
    LET leftKeySeries == df1.Columns[on]
        rowsOf(p) ==
            LET isNullKey == IsNull(leftKeySeries, p)
                matches == IF ~isNullKey
                           THEN Lookup(df2Map, At(leftKeySeries, p).val)
                           ELSE <<>>
            IN  IF Len(matches) > 0
                THEN [k \in DOMAIN matches |->
                         JoinedRow(df1, df2, on, p, matches[k])]
                ELSE <<LeftOnlyRow(df1, df2, p)>>
    IN  FlattenSeq([p \in 1..leftRows |-> rowsOf(p)])

performRightMerge(df1, df2, on, df2Map, leftRows, rightRows) ==
    LET df1Map == BuildKeyMap(df1.Columns[on], leftRows)
        rightKeySeries == df2.Columns[on]
        rowsOf(p) ==
            LET isNullKey == IsNull(rightKeySeries, p)
                key == IF ~isNullKey THEN At(rightKeySeries, p).val ELSE NilV
                matches == IF ~isNullKey THEN Lookup(df1Map, key) ELSE <<>>
            IN  IF Len(matches) > 0
                THEN [k \in DOMAIN matches |->
                         JoinedRow(df1, df2, on, matches[k], p)]
                ELSE <<RightOnlyRow(df1, df2, on, p, key, isNullKey)>>
    IN  FlattenSeq([p \in 1..rightRows |-> rowsOf(p)])

\* mutant: null-keyed right rows are skipped like processed keys
performFullMergeSkipNullKeys(df1, df2, on, df2Map, leftRows, rightRows) ==
    LET leftKeySeries == df1.Columns[on]
        rightKeySeries == df2.Columns[on]
        processedKeys == {At(leftKeySeries, p).val :
                            p \in {q \in 1..leftRows : ~IsNull(leftKeySeries, q)}}
        rowsOf(p) ==
            LET isNullKey == IsNull(rightKeySeries, p)
                key == At(rightKeySeries, p).val
            IN  IF isNullKey \/ key \in processedKeys THEN <<>>
                ELSE <<RightOnlyRow(df1, df2, on, p, key, isNullKey)>>
    IN  performLeftMerge(df1, df2, on, df2Map, leftRows, rightRows)
        \o FlattenSeq([p \in 1..rightRows |-> rowsOf(p)])

performFullMerge(df1, df2, on, df2Map, leftRows, rightRows) ==
    LET leftKeySeries == df1.Columns[on]
        rightKeySeries == df2.Columns[on]
        processedKeys == {At(leftKeySeries, p).val :
                            p \in {q \in 1..leftRows : ~IsNull(leftKeySeries, q)}}
        rowsOf(p) ==
            LET isNullKey == IsNull(rightKeySeries, p)
                key == At(rightKeySeries, p).val
            IN  IF ~isNullKey /\ key \in processedKeys THEN <<>>
                ELSE <<RightOnlyRow(df1, df2, on, p, key, isNullKey)>>
    IN  performLeftMerge(df1, df2, on, df2Map, leftRows, rightRows)
        \o FlattenSeq([p \in 1..rightRows |-> rowsOf(p)])

\* the element type comes from the left column of that name, else from the
\* right one; the null flags are not passed on, a nil value becomes null
createTypedSeriesFromMerge(values, nulls, df1, df2, colName, on) ==
    IF ~HasColumn(df1, colName) /\ ~HasColumn(df2, colName)
    THEN NewAnySeriesFromData(values, nulls)
    ELSE LET sourceSeries == IF HasColumn(df1, colName)
                             THEN df1.Columns[colName]
                             ELSE df2.Columns[colName]
         IN  NewSeriesWithData(DType(sourceSeries), values)

MergeHows == {"inner", "left", "right", "full"}

MergeError(msg) == [err |-> msg, df |-> NilDF, rows |-> <<>>]

\* mutant: the switch has no default branch, an unknown kind stages no rows
MergeSwitchNoDefault(df, other, on, how, df2Map, leftRows, rightRows) ==
    CASE how = "inner" ->
            [ok |-> TRUE,
             rows |-> performInnerMerge(df, other, on, df2Map, leftRows, rightRows)]
      [] how = "left" ->
            [ok |-> TRUE,
             rows |-> performLeftMerge(df, other, on, df2Map, leftRows, rightRows)]
      [] how = "right" ->
            [ok |-> TRUE,
             rows |-> performRightMerge(df, other, on, df2Map, leftRows, rightRows)]
      [] how = "full" ->
            [ok |-> TRUE,
             rows |-> performFullMerge(df, other, on, df2Map, leftRows, rightRows)]
      [] OTHER -> [ok |-> TRUE, rows |-> <<>>]

\* the switch on how: the staged rows, or the default branch's error
MergeSwitch(df, other, on, how, df2Map, leftRows, rightRows) ==
    CASE how = "inner" ->
            [ok |-> TRUE,
             rows |-> performInnerMerge(df, other, on, df2Map, leftRows, rightRows)]
      [] how = "left" ->
            [ok |-> TRUE,
             rows |-> performLeftMerge(df, other, on, df2Map, leftRows, rightRows)]
      [] how = "right" ->
            [ok |-> TRUE,
             rows |-> performRightMerge(df, other, on, df2Map, leftRows, rightRows)]
      [] how = "full" ->
            [ok |-> TRUE,
             rows |-> performFullMerge(df, other, on, df2Map, leftRows, rightRows)]
      [] OTHER -> [ok |-> FALSE, rows |-> <<>>]

Merge(df, other, on, how) ==
    IF df.nil \/ other.nil THEN MergeError("both DataFrames must be non-nil")
    ELSE IF ~HasColumn(df, on) THEN MergeError("column not found in left DataFrame")
    ELSE IF ~HasColumn(other, on) THEN MergeError("column not found in right DataFrame")
    ELSE
    LET leftRows == RowCount(df)
        rightRows == RowCount(other)
        df2Map == BuildKeyMap(other.Columns[on], rightRows)
        resultColumns == df.ColumnOrder \o RightCols(other, on)
        sw == MergeSwitch(df, other, on, how, df2Map, leftRows, rightRows)
        resultRows == sw.rows
        colValues(c) == [r \in DOMAIN resultRows |->
                            IF c <= Len(resultRows[r].values)
                            THEN resultRows[r].values[c] ELSE NilV]
        colNulls(c) == [r \in DOMAIN resultRows |->
                           IF c <= Len(resultRows[r].values)
                           THEN resultRows[r].nulls[c] ELSE TRUE]
        made == [c \in DOMAIN resultColumns |->
                    createTypedSeriesFromMerge(colValues(c), colNulls(c),
                                               df, other, resultColumns[c], on)]
        \* cols[colName] = s: a later column of the same name overwrites
        lastOf(name) == CHOOSE c \in DOMAIN resultColumns :
                            /\ resultColumns[c] = name
                            /\ \A d \in DOMAIN resultColumns :
                                  resultColumns[d] = name => d <= c
    IN  IF ~sw.ok THEN MergeError("invalid merge type")
        ELSE IF \E c \in DOMAIN made : made[c].err THEN MergeError("type mismatch")
        ELSE [err |-> "",
              df |-> DataFrame([name \in Range(resultColumns) |-> made[lastOf(name)].s],
                               resultColumns,
                               DefaultIndex(Len(resultRows))),
              rows |-> resultRows]

(***************************************************************************)
(* The earlier Merge over nullable-wrapper Series (part_004): its left     *)
(* join.  GetValue is At without the error, SetValue stores into a slot.   *)
(***************************************************************************)
GetValue(s, p) == At(s, p).val

\* SetValue of the wrapper Series: nil clears the slot, a value of the
\* element type is stored, a StringSeries renders any other value with
\* "%v", the other variants refuse it and leave the slot as it was
SetValue(dtype, old, v) ==
    IF v = NilV THEN NilV
    ELSE IF v.t = dtype THEN v
    ELSE IF dtype = "string" THEN Val("string", v.v)
    ELSE old

Rows(df) ==
    IF Len(df.ColumnOrder) = 0 \/ DOMAIN df.Columns = {} THEN 0
    ELSE IF HasColumn(df, df.ColumnOrder[1])
         THEN SeriesLen(df.Columns[df.ColumnOrder[1]])
         ELSE 0

\* one output row per left row; a matched row takes matches[0] only
performLeftMergeV1(l, r, on, rightKeysMap) ==
    LET rightColumns == RightCols(r, on)
        resultColumns == l.ColumnOrder \o rightColumns
        leftRows == Rows(l)
        leftSeries == l.Columns[on]
        match(p) == IF IsNull(leftSeries, p) THEN 0
                    ELSE LET matches == Lookup(rightKeysMap, GetValue(leftSeries, p))
                         IN  IF Len(matches) > 0 THEN matches[1] ELSE 0
        cell(col, p) ==
            IF p > SeriesLen(leftSeries) THEN NilV
            ELSE IF HasColumn(l, col) /\ ~(col \in Range(rightColumns))
                 THEN SetValue(DType(l.Columns[col]), NilV, GetValue(l.Columns[col], p))
            ELSE LET typ == IF HasColumn(l, col) THEN DType(l.Columns[col])
                            ELSE DType(r.Columns[col])
                     lv == IF HasColumn(l, col)
                           THEN SetValue(typ, NilV, GetValue(l.Columns[col], p))
                           ELSE NilV
                 IN  IF match(p) = 0 THEN NilV
                     ELSE SetValue(typ, lv, GetValue(r.Columns[col], match(p)))
        rowAt(p) == [c \in DOMAIN resultColumns |-> cell(resultColumns[c], p)]
    IN  [err |-> "",
         df |-> DataFrame([name \in Range(resultColumns) |->
                              [dtype |-> IF HasColumn(l, name)
                                         THEN DType(l.Columns[name])
                                         ELSE DType(r.Columns[name]),
                               data |-> [p \in 1..leftRows |-> cell(name, p)],
                               mask |-> [p \in 1..leftRows |-> cell(name, p) = NilV]]],
                          resultColumns, DefaultIndex(leftRows)),
         rows |-> [p \in 1..leftRows |->
                      mergeRow(rowAt(p), [c \in DOMAIN rowAt(p) |-> rowAt(p)[c] = NilV],
                               p, match(p))]]

MergeV1(df, other, on, how) ==
    IF df.nil \/ other.nil THEN MergeError("both DataFrames must be non-nil")
    ELSE IF ~HasColumn(df, on) \/ ~HasColumn(other, on)
         THEN MergeError("column not found in both DataFrames")
    ELSE LET rightKeysMap == BuildKeyMap(other.Columns[on], SeriesLen(other.Columns[on]))
         IN  IF how = "left" THEN performLeftMergeV1(df, other, on, rightKeysMap)
             ELSE MergeError("invalid merge type")

(***************************************************************************)
(* Inputs of the Merge runs                                                *)
(***************************************************************************)
KeyCodes == {1, 2}

KeyCells(t) == {NilV} \cup {Val(t, k) : k \in KeyCodes}

\* which payload rows are null
PayloadNulls(n) == {{}, {1} \cap (1..n)}

LeftFrames(maxRows) ==
    {DataFrame([ID |-> NewSeriesWithData("int64", k).s,
                Name |-> NewSeriesWithData("string",
                            [p \in 1..Len(k) |->
                                IF p \in z THEN NilV ELSE Val("string", p)]).s],
               <<"ID", "Name">>, DefaultIndex(Len(k))) :
        <<k, z>> \in UNION {[1..n -> KeyCells("int64")] \X PayloadNulls(n) :
                              n \in 0..maxRows}}

RightFrames(maxRows) ==
    UNION {{DataFrame([ID |-> NewSeriesWithData(t, k).s,
                       Age |-> NewSeriesWithData("int64",
                                  [p \in 1..Len(k) |->
                                      IF p \in z THEN NilV ELSE Val("int64", 10 + p)]).s],
                      <<"ID", "Age">>, DefaultIndex(Len(k))) :
               <<k, z>> \in UNION {[1..n -> KeyCells(t)] \X PayloadNulls(n) :
                                     n \in 0..maxRows}} :
           t \in {"int64", "string"}}

OnNames == {"ID", "Name", "Age"}

HowNames == MergeHows \cup {"outer"}

NoCall == [op |-> "none"]

NoResult == [err |-> "none", df |-> NilDF, rows |-> <<>>]

(***************************************************************************)
(* The Merge runs: two DataFrames, then one Merge call on them (Merge      *)
(* changes neither input, so a second call would see the same inputs)      *)
(***************************************************************************)
DoMerge(dfNil, otherNil, on, how) ==
    /\ call = NoCall
    /\ call' = [op |-> "Merge", dfNil |-> dfNil, otherNil |-> otherNil,
                on |-> on, how |-> how]
    /\ result' = Merge(IF dfNil THEN NilDF ELSE left,
                       IF otherNil THEN NilDF ELSE right, on, how)
    /\ UNCHANGED <<threads, locks, left, right, frame, view, heap>>

DoMergeV1(on) ==
    /\ call = NoCall
    /\ call' = [op |-> "MergeV1", dfNil |-> FALSE, otherNil |-> FALSE,
                on |-> on, how |-> "left"]
    /\ result' = MergeV1(left, right, on, "left")
    /\ UNCHANGED <<threads, locks, left, right, frame, view, heap>>

MergeInit ==
    /\ left \in LeftFrames(MaxRows)
    /\ right \in RightFrames(MaxRows)
    /\ call = NoCall
    /\ result = NoResult
    /\ frame = NilDF
    /\ view = NilDF
    /\ heap = <<>>
    /\ threads = <<>>
    /\ locks = <<>>

\* well-formed calls on the join column
MergeNext ==
    \/ \E how \in MergeHows : DoMerge(FALSE, FALSE, "ID", how)
    \/ DoMergeV1("ID")

MergeSpec == MergeInit /\ [][MergeNext]_vars

MergeArgsInit ==
    /\ left \in LeftFrames(MaxArgRows)
    /\ right \in RightFrames(MaxArgRows)
    /\ call = NoCall
    /\ result = NoResult
    /\ frame = NilDF
    /\ view = NilDF
    /\ heap = <<>>
    /\ threads = <<>>
    /\ locks = <<>>

\* every argument combination: nil inputs, any column name, any kind
MergeArgsNext ==
    \E dfNil \in BOOLEAN, otherNil \in BOOLEAN, on \in OnNames, how \in HowNames :
        DoMerge(dfNil, otherNil, on, how)

MergeArgsSpec == MergeArgsInit /\ [][MergeArgsNext]_vars

(***************************************************************************)
(* DataFrame structure operations (part_005)                               *)
(*                                                                         *)
(* A DataFrame that is operated on in place holds its Series by reference: *)
(* Columns maps a column name to the identity of a Series object, and heap *)
(* maps every identity to the object's current contents.  Two DataFrames   *)
(* alias a Series when their Columns hold the same identity.               *)
(***************************************************************************)

\* collection.Set (utils/collection/set.go): a set of comparable values
ToSet(s) == Range(s)

Intersect(a, b) == a \cap b

\* Compare: whether both sets hold the same elements
Compare(a, b) == a = b

GetMapKeys(input_map) == DOMAIN input_map

\* the orders in which a range loop may visit the entries of a Go map
MapOrders(m) ==
    {o \in [1..Cardinality(DOMAIN m) -> DOMAIN m] : Range(o) = DOMAIN m}

\* the rename loop: the entries of columns are visited in the order given;
\* the Series moves to the new name in the map (replacing what was stored
\* there) and every entry of ColumnOrder equal to the old name is rewritten
RECURSIVE RenameLoop(_, _, _)
RenameLoop(df, columns, order) ==
    IF order = <<>> THEN df
    ELSE LET original == Head(order)
             new == columns[original]
             cols == IF original \in DOMAIN df.Columns
                     THEN [n \in (DOMAIN df.Columns \ {original}) \cup {new} |->
                              IF n = new THEN df.Columns[original]
                              ELSE df.Columns[n]]
                     ELSE df.Columns
             ord == [i \in DOMAIN df.ColumnOrder |->
                        IF df.ColumnOrder[i] = original THEN new
                        ELSE df.ColumnOrder[i]]
         IN  RenameLoop([df EXCEPT !.Columns = cols, !.ColumnOrder = ord],
                        columns, Tail(order))

\* mutant: the rename loop runs over the keys that exist, without the
\* comparison of the keys with the column names
RenameUnchecked(df, columns, order) ==
    IF df.nil THEN [err |-> "DataFrame is nil", df |-> df]
    ELSE IF DOMAIN columns = {} THEN [err |-> "'columns' slice is empty", df |-> df]
    ELSE [err |-> IF Compare(GetMapKeys(columns),
                             Intersect(GetMapKeys(columns), ToSet(df.ColumnOrder)))
                  THEN "" ELSE "column is not present in DataFrame",
          df |-> RenameLoop(df, columns, order)]

\* Rename: every key must be a name of ColumnOrder, else nothing is renamed
Rename(df, columns, order) ==
    IF df.nil THEN [err |-> "DataFrame is nil", df |-> df]
    ELSE IF DOMAIN columns = {} THEN [err |-> "'columns' slice is empty", df |-> df]
    ELSE LET keys == GetMapKeys(columns)
             dfcols == ToSet(df.ColumnOrder)
             keys_dfcols_set_intersect == Intersect(keys, dfcols)
         IN  IF ~Compare(keys, keys_dfcols_set_intersect)
             THEN [err |-> "column is not present in DataFrame", df |-> df]
             ELSE [err |-> "", df |-> RenameLoop(df, columns, order)]

\* mutant: every selected name holds the Series of the first column
SelectFirstSeries(df, columns) ==
    IF df.nil THEN [err |-> "DataFrame is nil", df |-> NilDF]
    ELSE IF Len(columns) = 0
    THEN [err |-> "at least one column name is required", df |-> NilDF]
    ELSE IF \E i \in 1..Len(columns) : columns[i] \notin DOMAIN df.Columns
    THEN [err |-> "column not found", df |-> NilDF]
    ELSE [err |-> "",
          df |-> DataFrame([n \in Range(columns) |-> df.Columns[df.ColumnOrder[1]]],
                           columns, df.Index)]

\* Select: a new DataFrame over the same Series objects, the column names
\* as given (repeated names included), the index copied
Select(df, columns) ==
    IF df.nil THEN [err |-> "DataFrame is nil", df |-> NilDF]
    ELSE IF Len(columns) = 0
    THEN [err |-> "at least one column name is required", df |-> NilDF]
    ELSE IF \E i \in 1..Len(columns) : columns[i] \notin DOMAIN df.Columns
    THEN [err |-> "column not found", df |-> NilDF]
    ELSE [err |-> "",
          df |-> DataFrame([n \in Range(columns) |-> df.Columns[n]],
                           columns, df.Index)]

\* SelectCol: the Series object itself (0 stands for no Series)
SelectCol(df, column) ==
    IF df.nil THEN [err |-> "DataFrame is nil", series |-> 0]
    ELSE IF column \notin DOMAIN df.Columns
    THEN [err |-> "column not found", series |-> 0]
    ELSE [err |-> "", series |-> df.Columns[column]]

\* the row count SetIndex and ResetIndex go by: the length of the first
\* column of ColumnOrder
FirstColumnLen(df, objects) ==
    IF Len(df.ColumnOrder) > 0
    THEN SeriesLen(objects[df.Columns[df.ColumnOrder[1]]])
    ELSE 0

SetIndex(df, index, objects) ==
    IF df.nil THEN [err |-> "DataFrame is nil", df |-> df]
    ELSE IF Len(index) # FirstColumnLen(df, objects)
    THEN [err |-> "index length must match number of rows", df |-> df]
    ELSE [err |-> "", df |-> [df EXCEPT !.Index = index]]

ResetIndex(df, objects) ==
    IF df.nil THEN df
    ELSE [df EXCEPT !.Index = DefaultIndex(FirstColumnLen(df, objects))]

(***************************************************************************)
(* The DataFrame runs: a well-formed DataFrame of two columns, then any    *)
(* sequence of Rename, SetIndex, ResetIndex, Select and of Series writes   *)
(* through SelectCol on the DataFrame or on the last Select result         *)
(***************************************************************************)
ColNames == {"A", "B", "C"}

\* rename mappings of at most MaxRenames entries, the empty one included
RenameMaps ==
    UNION {[d -> ColNames] :
              d \in {e \in SUBSET ColNames : Cardinality(e) <= MaxRenames}}

\* the argument lists of Select, repeated and unknown names included
SelectArgs == UNION {[1..k -> ColNames] : k \in 0..MaxSelect}

\* the label lists given to SetIndex
IndexArgs == {[p \in 1..k |-> "r"] : k \in 0..MaxLen}

\* the values written into a Series (column A is int64, column B string)
WriteValues == {Val("int64", 1), Val("string", 1), NilV}

Targets == {"frame", "view"}

Target(t) == IF t = "frame" THEN frame ELSE view

FrameResult(err) == [err |-> err, df |-> NilDF, rows |-> <<>>]

\* the steps: what an operation does to frame, view and heap
RenameStep(columns, order) ==
    /\ frame' = Rename(frame, columns, order).df
    /\ UNCHANGED <<threads, locks, left, right, view, heap>>

SetIndexStep(index) ==
    /\ frame' = SetIndex(frame, index, heap).df
    /\ UNCHANGED <<threads, locks, left, right, view, heap>>

ResetIndexStep ==
    /\ frame' = ResetIndex(frame, heap)
    /\ UNCHANGED <<threads, locks, left, right, view, heap>>

\* a failed Select returns no DataFrame: the last one returned stays
SelectStep(columns) ==
    LET r == Select(frame, columns)
    IN  /\ view' = IF r.err = "" THEN r.df ELSE view
        /\ UNCHANGED <<threads, locks, left, right, frame, heap>>

\* the four writes of a Series: the new contents and whether it failed
Written(op, s, p, v) ==
    CASE op = "Set" -> SeriesSet(s, p, v)
      [] op = "SetNull" -> SetNull(s, p)
      [] op = "Append" -> SeriesAppend(s, v)
      [] op = "AppendNull" -> Wrote(AppendNull(s))

\* SelectCol(column) on the target, then the write on the Series it
\* returns (a write that fails leaves the Series as it was)
SeriesWrite(op, t, column, p, v) ==
    LET sel == SelectCol(Target(t), column)
    IN  /\ heap' = IF sel.err # "" THEN heap
                   ELSE [heap EXCEPT
                            ![sel.series] = Written(op, heap[sel.series], p, v).s]
        /\ UNCHANGED <<threads, locks, left, right, frame, view>>

\* Append and AppendNull stop at MaxLen elements
CanGrow(t, column) ==
    LET sel == SelectCol(Target(t), column)
    IN  sel.err = "" => SeriesLen(heap[sel.series]) < MaxLen

SetStep(t, column, p, v) == SeriesWrite("Set", t, column, p, v)

SetNullStep(t, column, p) == SeriesWrite("SetNull", t, column, p, NilV)

AppendStep(t, column, v) ==
    CanGrow(t, column) /\ SeriesWrite("Append", t, column, 0, v)

AppendNullStep(t, column) ==
    CanGrow(t, column) /\ SeriesWrite("AppendNull", t, column, 0, NilV)

\* the calls: a step, with the call and what it returned on record
DoRename(columns, order) ==
    /\ RenameStep(columns, order)
    /\ call' = [op |-> "Rename", columns |-> columns]
    /\ result' = FrameResult(Rename(frame, columns, order).err)

DoSelect(columns) ==
    /\ SelectStep(columns)
    /\ call' = [op |-> "Select", columns |-> columns]
    /\ result' = FrameResult(Select(frame, columns).err)

\* columns A (int64) and B (string) of n non-null elements, default index
FrameOfRows(n) ==
    /\ heap = <<NewSeriesWithData("int64", [p \in 1..n |-> Val("int64", 1)]).s,
                NewSeriesWithData("string", [p \in 1..n |-> Val("string", 1)]).s>>
    /\ frame = DataFrame([c \in {"A", "B"} |-> IF c = "A" THEN 1 ELSE 2],
                         <<"A", "B">>, DefaultIndex(n))
    /\ view = NilDF
    /\ call = NoCall
    /\ result = NoResult
    /\ left = NilDF
    /\ right = NilDF
    /\ threads = <<>>
    /\ locks = <<>>

FrameInit == \E n \in 0..MaxLen : FrameOfRows(n)

\* every operation, in any order; these runs keep no record of the calls
FrameNext ==
    \/ \E columns \in RenameMaps : \E order \in MapOrders(columns) :
          RenameStep(columns, order) /\ UNCHANGED <<call, result>>
    \/ \E index \in IndexArgs :
          SetIndexStep(index) /\ UNCHANGED <<call, result>>
    \/ ResetIndexStep /\ UNCHANGED <<call, result>>
    \/ \E columns \in SelectArgs :
          SelectStep(columns) /\ UNCHANGED <<call, result>>
    \/ \E t \in Targets, column \in ColNames, p \in 1..MaxLen, v \in WriteValues :
          SetStep(t, column, p, v) /\ UNCHANGED <<call, result>>
    \/ \E t \in Targets, column \in ColNames, p \in 1..MaxLen :
          SetNullStep(t, column, p) /\ UNCHANGED <<call, result>>
    \/ \E t \in Targets, column \in ColNames, v \in WriteValues :
          AppendStep(t, column, v) /\ UNCHANGED <<call, result>>
    \/ \E t \in Targets, column \in ColNames :
          AppendNullStep(t, column) /\ UNCHANGED <<call, result>>

FrameSpec == FrameInit /\ [][FrameNext]_vars

\* Rename and Select calls only, in any order, each on record
RenameNext ==
    \/ \E columns \in RenameMaps : \E order \in MapOrders(columns) :
          DoRename(columns, order)
    \/ \E columns \in SelectArgs : DoSelect(columns)

\* Rename and Select touch no Series: one row count stands for all
RenameInit == FrameOfRows(MaxLen)

RenameSpec == RenameInit /\ [][RenameNext]_vars

(***************************************************************************)
(* The aliasing runs: Select calls and Series writes through SelectCol on *)
(* the DataFrame or on the Select result, in any order, each on record     *)
(***************************************************************************)
WriteOps == {"Set", "SetNull", "Append", "AppendNull"}

\* what SelectCol and then the write return to the caller
WriteError(op, t, column, p, v) ==
    LET sel == SelectCol(Target(t), column)
    IN  IF sel.err # "" THEN sel.err
        ELSE IF Written(op, heap[sel.series], p, v).err THEN "series error"
        ELSE ""

DoWrite(op, t, column, p, v) ==
    /\ SeriesWrite(op, t, column, p, v)
    /\ call' = [op |-> op, target |-> t, column |-> column, p |-> p, v |-> v]
    /\ result' = FrameResult(WriteError(op, t, column, p, v))

DoSet(t, column, p, v) == DoWrite("Set", t, column, p, v)

DoSetNull(t, column, p) == DoWrite("SetNull", t, column, p, NilV)

DoAppend(t, column, v) ==
    CanGrow(t, column) /\ DoWrite("Append", t, column, 0, v)

DoAppendNull(t, column) ==
    CanGrow(t, column) /\ DoWrite("AppendNull", t, column, 0, NilV)

\* the Select calls of these runs: one column, both, both in the other
\* order, one twice, an unknown one
AliasSelectArgs ==
    {<<"A">>, <<"B">>, <<"A", "B">>, <<"B", "A">>, <<"A", "A">>, <<"C">>}

AliasNext ==
    \/ \E columns \in AliasSelectArgs : DoSelect(columns)
    \/ \E t \in Targets, column \in ColNames, p \in 1..MaxLen, v \in WriteValues :
          DoSet(t, column, p, v)
    \/ \E t \in Targets, column \in ColNames, p \in 1..MaxLen :
          DoSetNull(t, column, p)
    \/ \E t \in Targets, column \in ColNames, v \in WriteValues :
          DoAppend(t, column, v)
    \/ \E t \in Targets, column \in ColNames : DoAppendNull(t, column)

\* the Series start one element short of MaxLen
AliasInit == FrameOfRows(MaxLen - 1)

AliasSpec == AliasInit /\ [][AliasNext]_vars

(***************************************************************************)
(* Concurrent runs.  Every Series and the DataFrame carry a sync.RWMutex;  *)
(* an operation is the list of lock calls it makes, in the order the code  *)
(* makes them, and a thread runs one operation after the other.  RWMutex   *)
(* as the Go library defines it: Lock first announces the writer, which    *)
(* keeps new readers out, and returns once the readers inside have left;   *)
(* RLock waits while a writer is announced or inside.                      *)
(***************************************************************************)
Threads == 1..MaxThreads

\* the lock of the DataFrame and the locks of the Series of its columns
LockNames == {"df", "A", "B"}

Instr(do, on) == [do |-> do, on |-> on]

\* Len, At, IsNull, NullCount, ValuesCopy, MaskCopy, Slice:
\* s.mu.RLock(); defer s.mu.RUnlock()
SeriesReads ==
    {"Len", "At", "IsNull", "NullCount", "ValuesCopy", "MaskCopy", "Slice"}

SeriesReadProg(s) == <<Instr("RLock", s), Instr("RUnlock", s)>>

\* mutant: a write takes the lock as a read does
SeriesWriteProgShared(s) == <<Instr("RLock", s), Instr("RUnlock", s)>>

\* Set, SetNull, Append, AppendNull: s.mu.Lock(); defer s.mu.Unlock()
SeriesWriteProg(s) == <<Instr("Lock", s), Instr("Unlock", s)>>

\* mutant: the row count is read under the read lock of the DataFrame
DataFrameLenLocked ==
    <<Instr("RLock", "df")>> \o SeriesReadProg("A") \o <<Instr("RUnlock", "df")>>

\* DataFrame.Len: the length of a column, the DataFrame lock not taken
DataFrameLenProg == SeriesReadProg("A")

\* a pass over the columns, one Series call after the other
ColumnReads == SeriesReadProg("A") \o SeriesReadProg("B")

\* the lock calls of an operation; op.on is the Series of a Series call
Prog(op) ==
    CASE op.name \in SeriesReads -> SeriesReadProg(op.on)
      [] op.name \in WriteOps -> SeriesWriteProg(op.on)
      [] op.name \in {"Select", "SelectCol"} ->
            <<Instr("RLock", "df"), Instr("RUnlock", "df")>>
      [] op.name = "Rename" -> <<Instr("Lock", "df"), Instr("Unlock", "df")>>
      [] op.name \in {"SetIndex", "ResetIndex"} ->
            <<Instr("Lock", "df")>> \o SeriesReadProg("A")
                \o <<Instr("Unlock", "df")>>
      [] op.name = "Merge" -> ColumnReads
      [] op.name = "GroupBy" -> DataFrameLenProg \o ColumnReads
      [] op.name \in {"PivotTable", "Melt"} ->
            <<Instr("RLock", "df")>> \o DataFrameLenProg \o ColumnReads
                \o <<Instr("RUnlock", "df")>>

Idle == [op |-> [name |-> "none", on |-> "none"], pc |-> 0]

FreeLock == [writer |-> 0, pending |-> 0, readers |-> [t \in Threads |-> 0]]

\* the instruction thread t is at
Current(t) == Prog(threads[t].op)[threads[t].pc]

Running(t) == threads[t] # Idle

\* thread t has made the call it was at: on to the next, or return
Advance(t) ==
    threads' = [threads EXCEPT ![t] =
                   IF threads[t].pc = Len(Prog(threads[t].op)) THEN Idle
                   ELSE [@ EXCEPT !.pc = @ + 1]]

Start(t, op) ==
    /\ ~Running(t)
    /\ threads' = [threads EXCEPT ![t] = [op |-> op, pc |-> 1]]
    /\ UNCHANGED <<locks, left, right, call, result, frame, view, heap>>

RLock(t) ==
    /\ Running(t) /\ Current(t).do = "RLock"
    /\ locks[Current(t).on].writer = 0 /\ locks[Current(t).on].pending = 0
    /\ locks' = [locks EXCEPT ![Current(t).on].readers[t] = @ + 1]
    /\ Advance(t)
    /\ UNCHANGED <<left, right, call, result, frame, view, heap>>

RUnlock(t) ==
    /\ Running(t) /\ Current(t).do = "RUnlock"
    /\ locks' = [locks EXCEPT ![Current(t).on].readers[t] = @ - 1]
    /\ Advance(t)
    /\ UNCHANGED <<left, right, call, result, frame, view, heap>>

\* Lock, first half: the writer is announced (one writer at a time)
LockAnnounce(t) ==
    /\ Running(t) /\ Current(t).do = "Lock"
    /\ locks[Current(t).on].writer = 0 /\ locks[Current(t).on].pending = 0
    /\ locks' = [locks EXCEPT ![Current(t).on].pending = t]
    /\ UNCHANGED <<threads, left, right, call, result, frame, view, heap>>

\* Lock, second half: the readers have left
LockAcquire(t) ==
    /\ Running(t) /\ Current(t).do = "Lock"
    /\ locks[Current(t).on].pending = t
    /\ \A u \in Threads : locks[Current(t).on].readers[u] = 0
    /\ locks' = [locks EXCEPT ![Current(t).on].pending = 0,
                              ![Current(t).on].writer = t]
    /\ Advance(t)
    /\ UNCHANGED <<left, right, call, result, frame, view, heap>>

Unlock(t) ==
    /\ Running(t) /\ Current(t).do = "Unlock"
    /\ locks' = [locks EXCEPT ![Current(t).on].writer = 0]
    /\ Advance(t)
    /\ UNCHANGED <<left, right, call, result, frame, view, heap>>

Step(t) ==
    RLock(t) \/ RUnlock(t) \/ LockAnnounce(t) \/ LockAcquire(t) \/ Unlock(t)

LockInit ==
    /\ threads = [t \in Threads |-> Idle]
    /\ locks = [l \in LockNames |-> FreeLock]
    /\ left = NilDF
    /\ right = NilDF
    /\ call = NoCall
    /\ result = NoResult
    /\ frame = NilDF
    /\ view = NilDF
    /\ heap = <<>>

\* the runs on one Series: every read and every write of Series A
SeriesLockOps == {[name |-> n, on |-> "A"] : n \in SeriesReads \cup WriteOps}

SeriesLockNext ==
    \/ \E t \in Threads, op \in SeriesLockOps : Start(t, op)
    \/ \E t \in Threads : RLock(t)
    \/ \E t \in Threads : RUnlock(t)
    \/ \E t \in Threads : LockAnnounce(t)
    \/ \E t \in Threads : LockAcquire(t)
    \/ \E t \in Threads : Unlock(t)

SeriesLockSpec == LockInit /\ [][SeriesLockNext]_vars

\* the runs on a DataFrame: a Series read and a Series write on each
\* column, and every DataFrame operation
LockOps ==
    {[name |-> n, on |-> s] : n \in {"At", "Set"}, s \in {"A", "B"}}
    \cup {[name |-> n, on |-> "none"] :
            n \in {"Select", "SelectCol", "Rename", "SetIndex", "ResetIndex",
                   "Merge", "GroupBy", "PivotTable", "Melt"}}

LockNext ==
    \/ \E t \in Threads, op \in LockOps : Start(t, op)
    \/ \E t \in Threads : RLock(t)
    \/ \E t \in Threads : RUnlock(t)
    \/ \E t \in Threads : LockAnnounce(t)
    \/ \E t \in Threads : LockAcquire(t)
    \/ \E t \in Threads : Unlock(t)

LockSpec == LockInit /\ [][LockNext]_vars

\* a thread that can make its next lock call again and again makes it: the
\* Go scheduler is preemptive and its mutexes hand over to a starved waiter
LockLiveSpec == LockSpec /\ \A t \in Threads : SF_vars(Step(t))

(***************************************************************************)
(* Properties of Merge                                                     *)
(*                                                                         *)
(* They read the inputs and the returned DataFrame directly (data, mask),  *)
(* not through the operators of the model.                                 *)
(***************************************************************************)
Merged(how) ==
    call.op = "Merge" /\ ~call.dfNil /\ ~call.otherNil /\ call.on = "ID"
    /\ call.how = how /\ result.err = ""

LeftN == Len(left.Columns.ID.mask)

RightN == Len(right.Columns.ID.mask)

LeftKeyNull(p) == left.Columns.ID.mask[p]

RightKeyNull(q) == right.Columns.ID.mask[q]

\* the keys of left row p and right row q are non-null and equal
KeysMatch(p, q) ==
    /\ ~LeftKeyNull(p)
    /\ ~RightKeyNull(q)
    /\ left.Columns.ID.data[p] = right.Columns.ID.data[q]

RightMatches(p) == {q \in 1..RightN : KeysMatch(p, q)}

LeftMatches(q) == {p \in 1..LeftN : KeysMatch(p, q)}

OutN == Len(result.df.Index)

\* the output rows built from left row p / from right row q
OutOfLeft(p) == {r \in DOMAIN result.rows : result.rows[r].li = p}

OutOfRight(q) == {r \in DOMAIN result.rows : result.rows[r].ri = q}

\* the cell of a column at a row: the value, or NilV for a null
Cell(df, name, r) ==
    IF df.Columns[name].mask[r] THEN NilV ELSE df.Columns[name].data[r]

\* output row r carries left row p in the left columns
CarriesLeft(r, p) ==
    \A name \in {"ID", "Name"} : Cell(result.df, name, r) = Cell(left, name, p)

\* output row r carries right row q in the right columns
CarriesRight(r, q) == Cell(result.df, "Age", r) = Cell(right, "Age", q)

\* the sum of f[x] over x in S
RECURSIVE SumOver(_, _)
SumOver(S, f) ==
    IF S = {} THEN 0
    ELSE LET x == CHOOSE x \in S : TRUE IN f[x] + SumOver(S \ {x}, f)

\* C1: for every join kind, an output row built from a left row and a
\* right row has a non-null key on both sides, and the two keys are equal
\* (a null key matches nothing, not even another null key)
C1_NullKeysNeverMatch ==
    \A how \in MergeHows :
        Merged(how) =>
            \A r \in DOMAIN result.rows :
                LET row == result.rows[r]
                IN  (row.li # 0 /\ row.ri # 0) =>
                        /\ KeysMatch(row.li, row.ri)
                        /\ CarriesLeft(r, row.li)
                        /\ CarriesRight(r, row.ri)

\* a Merge of two frames that both hold a null key (and a joined row) was made
C1_Witness ==
    /\ \E how \in MergeHows : Merged(how)
    /\ \E p \in 1..LeftN : LeftKeyNull(p)
    /\ \E q \in 1..RightN : RightKeyNull(q)
    /\ \E r \in DOMAIN result.rows : result.rows[r].li # 0 /\ result.rows[r].ri # 0

\* the fan-out of a result: a probed row with m >= 1 matches gives exactly
\* m output rows, one per matching row of the other side
FanOut ==
    /\ call.how \in {"inner", "left", "full"} =>
          \A p \in 1..LeftN :
              RightMatches(p) # {} =>
                  /\ Cardinality(OutOfLeft(p)) = Cardinality(RightMatches(p))
                  /\ {result.rows[r].ri : r \in OutOfLeft(p)} = RightMatches(p)
    /\ call.how = "right" =>
          \A q \in 1..RightN :
              LeftMatches(q) # {} =>
                  /\ Cardinality(OutOfRight(q)) = Cardinality(LeftMatches(q))
                  /\ {result.rows[r].li : r \in OutOfRight(q)} = LeftMatches(q)

\* C2: in each of the four join kinds a probed row whose non-null key
\* equals the key of m >= 1 rows of the other side produces exactly m
\* output rows, one per matching row; stated of every Merge in the
\* repository, the one over nullable-wrapper Series included
C2_FanOutAllKinds ==
    (call.op \in {"Merge", "MergeV1"} /\ call.on = "ID" /\ result.err = "") => FanOut

\* the same of the Merge of dataframe/merge.go alone
C2_FanOutCurrent == (\E how \in MergeHows : Merged(how)) => FanOut

\* C3: the row count of an inner merge is the sum, over the non-null key
\* values v present on both sides, of count_left(v) * count_right(v)
C3_InnerCardinality ==
    Merged("inner") =>
        LET keysA == {left.Columns.ID.data[p] : p \in {p \in 1..LeftN : ~LeftKeyNull(p)}}
            keysB == {right.Columns.ID.data[q] : q \in {q \in 1..RightN : ~RightKeyNull(q)}}
            countA(v) == Cardinality({p \in 1..LeftN :
                            ~LeftKeyNull(p) /\ left.Columns.ID.data[p] = v})
            countB(v) == Cardinality({q \in 1..RightN :
                            ~RightKeyNull(q) /\ right.Columns.ID.data[q] = v})
            prod == [v \in keysA \cap keysB |-> countA(v) * countB(v)]
        IN  /\ OutN = SumOver(keysA \cap keysB, prod)
            /\ \A name \in DOMAIN result.df.Columns :
                  Len(result.df.Columns[name].data) = OutN

\* an inner merge with a key held twice on both sides (four joined rows)
C3_Witness ==
    /\ Merged("inner")
    /\ \E p \in 1..LeftN : Cardinality(RightMatches(p)) >= 2
    /\ \E q \in 1..RightN : Cardinality(LeftMatches(q)) >= 2
    /\ OutN >= 4

\* C4: in a left merge every left row appears at least once, and a left
\* row with a null key or without a matching right row appears exactly
\* once, with every right column null in that row
C4_LeftCoverage ==
    Merged("left") =>
        \A p \in 1..LeftN :
            /\ OutOfLeft(p) # {}
            /\ \A r \in OutOfLeft(p) : CarriesLeft(r, p)
            /\ RightMatches(p) = {} =>
                  /\ Cardinality(OutOfLeft(p)) = 1
                  /\ \A r \in OutOfLeft(p) : result.df.Columns.Age.mask[r]

\* a left merge with a null-keyed left row, an unmatched left row and a
\* matched one
C4_Witness ==
    /\ Merged("left")
    /\ \E p \in 1..LeftN : LeftKeyNull(p)
    /\ \E p \in 1..LeftN : ~LeftKeyNull(p) /\ RightMatches(p) = {}
    /\ \E p \in 1..LeftN : RightMatches(p) # {}

\* C5: in a right merge every right row without a matching left row (a
\* null-keyed one included) appears exactly once, with every left column
\* null except the key column, which holds that right row's own key
C5_RightUnmatched ==
    Merged("right") =>
        \A q \in 1..RightN :
            LeftMatches(q) = {} =>
                /\ Cardinality(OutOfRight(q)) = 1
                /\ \A r \in OutOfRight(q) :
                      /\ result.df.Columns.Name.mask[r]
                      /\ Cell(result.df, "ID", r) = Cell(right, "ID", q)
                      /\ CarriesRight(r, q)

\* a right merge with an unmatched non-null right key, a null right key
\* and a matched right row
C5_Witness ==
    /\ Merged("right")
    /\ \E q \in 1..RightN : ~RightKeyNull(q) /\ LeftMatches(q) = {}
    /\ \E q \in 1..RightN : RightKeyNull(q)
    /\ \E q \in 1..RightN : LeftMatches(q) # {}

\* C6: the row count of a full merge is the row count of the left merge of
\* the same inputs plus the number of right rows whose key equals no left
\* key, every null-keyed right row counted
C6_FullCompleteness ==
    Merged("full") =>
        LET leftMerge == Merge(left, right, "ID", "left")
        IN  /\ leftMerge.err = ""
            /\ OutN = Len(leftMerge.df.Index)
                      + Cardinality({q \in 1..RightN : LeftMatches(q) = {}})

\* a full merge with a null right key, an unmatched right key, a matched
\* right row and an unmatched left row
C6_Witness ==
    /\ Merged("full")
    /\ \E q \in 1..RightN : RightKeyNull(q)
    /\ \E q \in 1..RightN : ~RightKeyNull(q) /\ LeftMatches(q) = {}
    /\ \E q \in 1..RightN : LeftMatches(q) # {}
    /\ \E p \in 1..LeftN : RightMatches(p) = {}

\* a Merge call that must fail: a nil input, a join column missing on a
\* side, or an unknown join kind
BadMergeCall ==
    /\ call.op = "Merge"
    /\ \/ call.dfNil
       \/ call.otherNil
       \/ call.on \notin DOMAIN left.Columns
       \/ call.on \notin DOMAIN right.Columns
       \/ call.how \notin {"inner", "left", "right", "full"}

\* C7: such a call returns an error and no DataFrame, never a partly
\* built one
C7_MergeFailsWhole ==
    BadMergeCall => (result.err # "" /\ result.df = NilDF /\ result.rows = <<>>)

\* a failed call of each sort: unknown kind on good inputs, missing column
\* on otherwise good arguments, nil input
C7_Witness ==
    /\ BadMergeCall
    /\ result.err # ""
    /\ ~call.dfNil /\ ~call.otherNil /\ call.on = "ID" /\ call.how = "outer"
    /\ LeftN > 0 /\ RightN > 0

(***************************************************************************)
(* Properties of the DataFrame structure operations                        *)
(***************************************************************************)
\* the Series objects a DataFrame holds
Held(df) == {df.Columns[c] : c \in DOMAIN df.Columns}

\* ColumnOrder lists every key of the column map exactly once
OrderIsPermutation(df) ==
    /\ \A i, j \in DOMAIN df.ColumnOrder :
          df.ColumnOrder[i] = df.ColumnOrder[j] => i = j
    /\ {df.ColumnOrder[i] : i \in DOMAIN df.ColumnOrder} = DOMAIN df.Columns

\* C8: after any sequence of Rename, SetIndex, ResetIndex, Select and of
\* Set, SetNull, Append, AppendNull on a Series reached through SelectCol
\* on the DataFrame or on a Select view, every Series of the DataFrame's
\* columns has the same length and the index has that length too
C8_EqualLengths ==
    ~frame.nil =>
        \A c \in DOMAIN frame.Columns :
            /\ Len(heap[frame.Columns[c]].data) = Len(frame.Index)
            /\ Len(heap[frame.Columns[c]].mask) = Len(frame.Index)

\* C9: after any sequence of Rename calls, ColumnOrder is a duplicate-free
\* permutation of the keys of the column map and the DataFrame still holds
\* every Series it started with; the ColumnOrder of every DataFrame that
\* Select returned is a duplicate-free permutation of its keys as well
C9_ColumnOrderPermutation ==
    /\ ~frame.nil => OrderIsPermutation(frame) /\ Held(frame) = DOMAIN heap
    /\ ~view.nil => OrderIsPermutation(view)

\* the part of C9 about Rename alone
C9_RenameKeepsColumns ==
    ~frame.nil => OrderIsPermutation(frame) /\ Held(frame) = DOMAIN heap

\* the part of C9 about Select alone
C9_SelectOrder == ~view.nil => OrderIsPermutation(view)

\* C10: a Rename whose mapping has a key that is no column name returns an
\* error and changes neither the column map nor ColumnOrder nor the index
C10_RenameFailsWhole ==
    [][(/\ call'.op = "Rename"
        /\ \E k \in DOMAIN call'.columns : k \notin DOMAIN frame.Columns)
       => /\ result'.err # ""
          /\ frame'.Columns = frame.Columns
          /\ frame'.ColumnOrder = frame.ColumnOrder
          /\ frame'.Index = frame.Index]_vars

\* a Rename of an already renamed DataFrame, one key a column name and one
\* not, has returned an error
C10_Witness ==
    /\ call.op = "Rename"
    /\ \E k \in DOMAIN call.columns : k \notin DOMAIN frame.Columns
    /\ \E k \in DOMAIN call.columns :
          k \in DOMAIN frame.Columns /\ call.columns[k] # k
    /\ frame.ColumnOrder # <<"A", "B">>
    /\ Len(frame.Index) > 0
    /\ result.err # ""

\* the names Rename(m) is to leave in ColumnOrder, position by position
RenamedOrder(df, m) ==
    [i \in DOMAIN df.ColumnOrder |->
        IF df.ColumnOrder[i] \in DOMAIN m THEN m[df.ColumnOrder[i]]
        ELSE df.ColumnOrder[i]]

PairwiseDistinct(s) == \A i, j \in DOMAIN s : s[i] = s[j] => i = j

\* position by position, the DataFrame after holds the expected name and
\* under it the Series the DataFrame before held at that position
RenamedInPlace(before, after, m) ==
    /\ after.ColumnOrder = RenamedOrder(before, m)
    /\ \A i \in DOMAIN before.ColumnOrder :
          /\ after.ColumnOrder[i] \in DOMAIN after.Columns
          /\ after.Columns[after.ColumnOrder[i]] =
                before.Columns[before.ColumnOrder[i]]

\* C11: after a successful Rename(m) whose resulting names are pairwise
\* distinct, every position of ColumnOrder holds the new name of the column
\* that was there (or the old one when m has no entry for it) and that name
\* maps to the Series the position had before, in whatever order the
\* entries of m are processed
C11_RenamePositional ==
    [][(/\ call'.op = "Rename"
        /\ result'.err = ""
        /\ PairwiseDistinct(RenamedOrder(frame, call'.columns)))
       => RenamedInPlace(frame, frame', call'.columns)]_vars

\* the same for the mappings none of whose new names is a column name
\* before the call (a name mapped to itself aside)
C11_RenameToFreshNames ==
    [][(/\ call'.op = "Rename"
        /\ result'.err = ""
        /\ PairwiseDistinct(RenamedOrder(frame, call'.columns))
        /\ \A k \in DOMAIN call'.columns :
              call'.columns[k] = k \/ call'.columns[k] \notin DOMAIN frame.Columns)
       => RenamedInPlace(frame, frame', call'.columns)]_vars

\* what a reader of Series s finds after the write on record in c, given
\* the contents old it had before
WriteIsSeen(c, old, s) ==
    CASE c.op = "Set" ->
            /\ c.p \in DOMAIN s.mask
            /\ IF c.v = NilV THEN s.mask[c.p]
               ELSE ~s.mask[c.p] /\ s.data[c.p] = c.v
      [] c.op = "SetNull" -> c.p \in DOMAIN s.mask /\ s.mask[c.p]
      [] c.op = "Append" ->
            /\ Len(s.data) = Len(old.data) + 1
            /\ Len(s.mask) = Len(old.mask) + 1
            /\ IF c.v = NilV THEN s.mask[Len(s.mask)]
               ELSE ~s.mask[Len(s.mask)] /\ s.data[Len(s.data)] = c.v
      [] c.op = "AppendNull" ->
            /\ Len(s.data) = Len(old.data) + 1
            /\ Len(s.mask) = Len(old.mask) + 1
            /\ s.mask[Len(s.mask)]

OtherOf(t) == IF t = "frame" THEN view ELSE frame

\* C12: after Select, a Set, SetNull, Append or AppendNull that succeeds
\* through a column of the source DataFrame or of the Select result is
\* seen through the column of the same name of the other one
C12_SelectAliases ==
    [][(/\ call'.op \in WriteOps
        /\ result'.err = ""
        /\ ~view.nil
        /\ call'.column \in DOMAIN frame.Columns \cap DOMAIN view.Columns)
       => WriteIsSeen(call', heap[OtherOf(call'.target).Columns[call'.column]],
                      heap'[OtherOf(call'.target).Columns[call'.column]])]_vars

\* after a Select of both columns and an Append through the DataFrame, a
\* Set of the appended element through the Select result has succeeded
C12_Witness ==
    /\ call.op = "Set" /\ call.target = "view" /\ call.v # NilV
    /\ result.err = ""
    /\ ~view.nil /\ Len(view.ColumnOrder) = 2
    /\ DOMAIN view.Columns = DOMAIN frame.Columns
    /\ Len(heap[frame.Columns["A"]].data) > Len(view.Index)
    /\ call.column = "A" /\ call.p = Len(heap[frame.Columns["A"]].data)

(***************************************************************************)
(* Properties of the locks                                                 *)
(***************************************************************************)
\* the locks thread t holds, by its position in its operation: those it
\* has locked, for reading or for writing, and not yet unlocked
Holds(t) ==
    IF ~Running(t) THEN {}
    ELSE LET prog == Prog(threads[t].op)
             pc == threads[t].pc
         IN  {l \in LockNames :
                \E i \in 1..(pc - 1) :
                    /\ prog[i].on = l /\ prog[i].do \in {"Lock", "RLock"}
                    /\ \A j \in (i + 1)..(pc - 1) :
                          prog[j].on # l \/ prog[j].do \notin {"Unlock", "RUnlock"}}

\* thread t runs a Series call of the given names and is inside its
\* critical section on Series s
InsideSeries(t, names, s) ==
    threads[t].op.name \in names /\ threads[t].op.on = s /\ s \in Holds(t)

\* C13: while a write of a Series is inside its critical section no other
\* read or write of that Series is inside its own
C13_WriteExcludes ==
    \A t \in Threads :
        InsideSeries(t, WriteOps, "A") =>
            \A u \in Threads \ {t} :
                ~InsideSeries(u, WriteOps \cup SeriesReads, "A")

\* a write of a Series is inside its critical section while a read of the
\* same Series waits at its RLock
C13_Witness ==
    \E t, u \in Threads :
        /\ InsideSeries(t, WriteOps, "A")
        /\ threads[u].op.name \in SeriesReads /\ threads[u].pc = 1

\* C13, second half: two reads of the same Series are inside their critical
\* sections at the same time (a state that is reached)
C13_ReadsShare ==
    \E t, u \in Threads :
        /\ t # u
        /\ InsideSeries(t, SeriesReads, "A")
        /\ InsideSeries(u, SeriesReads, "A")

\* C14: a thread that executes Merge, GroupBy or PivotTable never holds
\* more than one lock at a time
C14_OneLockAtATime ==
    \A t \in Threads :
        threads[t].op.name \in {"Merge", "GroupBy", "PivotTable"} =>
            Cardinality(Holds(t)) <= 1

\* the same of Merge and GroupBy alone
C14_MergeGroupByOneLock ==
    \A t \in Threads :
        threads[t].op.name \in {"Merge", "GroupBy"} => Cardinality(Holds(t)) <= 1

Kinds == {"float64", "int64", "int", "string", "bool", "other"}

SeriesValues == {Val(t, 1) : t \in {"float64", "int64", "int", "string", "bool"}}
                    \cup {NilV}

\* mutant: the mask is taken as given, whatever its length
NewSeriesFromDataUnchecked(dtype, data, hasMask, mask) ==
    [s |-> [dtype |-> dtype, data |-> data,
            mask |-> IF hasMask THEN mask ELSE [p \in 1..Len(data) |-> FALSE]],
     err |-> FALSE]

\* New<T>SeriesFromData: a mask that is given (not nil) must be as long as
\* the data; a nil mask stands for "no nulls"
NewSeriesFromData(dtype, data, hasMask, mask) ==
    IF hasMask /\ Len(data) # Len(mask) THEN [s |-> NilSeries, err |-> TRUE]
    ELSE [s |-> [dtype |-> dtype, data |-> data,
                 mask |-> IF hasMask THEN mask
                          ELSE [p \in 1..Len(data) |-> FALSE]],
          err |-> FALSE]

\* NewSeriesOfTypeWithSize: size zero values and a nil mask
NewSeriesOfTypeWithSize(t, size) ==
    NewSeriesFromData(VariantOf(t), [p \in 1..size |-> Zero(VariantOf(t))],
                      FALSE, <<>>).s

\* the slices a caller can hand to New<T>SeriesFromData: a []T holds values
\* of type T only, a []any holds anything
SeqsUpTo(S, n) == UNION {[1..k -> S] : k \in 0..n}

DataOf(dtype) ==
    IF dtype = "any" THEN SeqsUpTo(SeriesValues, MaxLen)
    ELSE SeqsUpTo({Val(dtype, 0), Val(dtype, 1)}, MaxLen)

SeriesResult(r) == [err |-> r.msg, df |-> NilDF, rows |-> <<>>]

\* a Series write with its arguments and its error recorded
DoSeriesWrite(op, p, v) ==
    /\ Len(Written(op, heap[1], p, v).s.data) <= MaxLen
    /\ heap' = <<Written(op, heap[1], p, v).s>>
    /\ call' = [op |-> op, p |-> p, v |-> v]
    /\ result' = SeriesResult(Written(op, heap[1], p, v))
    /\ UNCHANGED <<threads, locks, left, right, frame, view>>

DoSeriesSet(p, v) == DoSeriesWrite("Set", p, v)

DoSeriesSetNull(p) == DoSeriesWrite("SetNull", p, NilV)

DoSeriesAppend(v) == DoSeriesWrite("Append", 0, v)

DoSeriesAppendNull == DoSeriesWrite("AppendNull", 0, NilV)

SeriesBuilt(s) ==
    /\ heap = <<s>>
    /\ call = NoCall
    /\ result = NoResult
    /\ frame = NilDF
    /\ view = NilDF
    /\ left = NilDF
    /\ right = NilDF
    /\ threads = <<>>
    /\ locks = <<>>

SeriesInit ==
    \/ \E t \in Kinds : SeriesBuilt(NewSeriesOfType(t))
    \/ \E t \in Kinds, size \in 0..MaxLen :
           SeriesBuilt(NewSeriesOfTypeWithSize(t, size))
    \/ \E t \in Kinds, values \in SeqsUpTo(SeriesValues, MaxLen) :
           /\ ~NewSeriesWithData(t, values).err
           /\ SeriesBuilt(NewSeriesWithData(t, values).s)
    \/ \E t \in Kinds, hasMask \in BOOLEAN,
          mask \in SeqsUpTo(BOOLEAN, MaxLen) :
           \E data \in DataOf(VariantOf(t)) :
               /\ ~NewSeriesFromData(VariantOf(t), data, hasMask, mask).err
               /\ SeriesBuilt(NewSeriesFromData(VariantOf(t), data, hasMask,
                                                mask).s)

SeriesNext ==
    \/ \E p \in 0..(MaxLen + 1), v \in SeriesValues : DoSeriesSet(p, v)
    \/ \E p \in 0..(MaxLen + 1) : DoSeriesSetNull(p)
    \/ \E v \in SeriesValues : DoSeriesAppend(v)
    \/ DoSeriesAppendNull

SeriesSpec == SeriesInit /\ [][SeriesNext]_vars

(***************************************************************************)
(* Properties of the Series variants                                       *)
(***************************************************************************)
\* C16: in every Series variant, after construction and after every Set,
\* SetNull, Append and AppendNull call, failed ones included, the value
\* array and the null mask have the same length
C16_MaskAsLongAsData == Len(heap[1].data) = Len(heap[1].mask)

\* a call failed and the Series still has values and as many mask entries
C16_Witness ==
    /\ call # NoCall
    /\ result.err # ""
    /\ Len(heap[1].data) = MaxLen
    /\ Len(heap[1].mask) = MaxLen

\* the call just made wrote a non-null value of another type than the
\* element type of a typed variant
MismatchedWrite(c, s) ==
    /\ c.op \in {"Set", "Append"}
    /\ c.v # NilV
    /\ s.dtype # "any"
    /\ c.v.t # s.dtype

IsSeriesV0(s) == "mask" \notin DOMAIN s

NewSeriesOfTypeV0(dtype) == [dtype |-> dtype, data |-> <<>>]

\* the dtype a write leaves: fixed by v when still nil and v is not nil
DTypeAfter(s, v) == IF s.dtype = "nil" /\ v # NilV THEN v.t ELSE s.dtype

AppendV0(s, v) ==
    IF v # NilV /\ DTypeAfter(s, v) # "nil" /\ v.t # DTypeAfter(s, v)
    THEN Failed([s EXCEPT !.dtype = DTypeAfter(s, v)], "type mismatch")
    ELSE Wrote([s EXCEPT !.dtype = DTypeAfter(s, v), !.data = Append(@, v)])

SetV0(s, p, v) ==
    IF p < 1 \/ p > Len(s.data) THEN Failed(s, "index out of range")
    ELSE IF v # NilV /\ DTypeAfter(s, v) # "nil" /\ v.t # DTypeAfter(s, v)
    THEN Failed([s EXCEPT !.dtype = DTypeAfter(s, v)], "type mismatch")
    ELSE Wrote([s EXCEPT !.dtype = DTypeAfter(s, v), !.data[p] = v])

\* the dtype NewSeriesWithData infers: that of the first non-nil value
RECURSIVE InferDType(_, _)
InferDType(values, p) ==
    IF p > Len(values) THEN "nil"
    ELSE IF values[p] # NilV THEN values[p].t
    ELSE InferDType(values, p + 1)

NewSeriesWithDataV0(dtype, values) ==
    LET d == IF dtype = "nil" THEN InferDType(values, 1) ELSE dtype
    IN  IF \E p \in DOMAIN values :
               values[p] # NilV /\ d # "nil" /\ values[p].t # d
        THEN [s |-> NilSeries, err |-> TRUE]
        ELSE [s |-> [dtype |-> d, data |-> values], err |-> FALSE]

(***************************************************************************)
(* The unset-type runs: a Series constructed without an element type, the  *)
(* earlier Series with a nil dtype or the AnySeries that NewSeriesOfType   *)
(* falls back to, then Set and Append calls on it                          *)
(***************************************************************************)
DoSetV0(p, v) ==
    /\ IsSeriesV0(heap[1])
    /\ heap' = <<SetV0(heap[1], p, v).s>>
    /\ call' = [op |-> "Set", p |-> p, v |-> v]
    /\ result' = SeriesResult(SetV0(heap[1], p, v))
    /\ UNCHANGED <<threads, locks, left, right, frame, view>>

DoAppendV0(v) ==
    /\ IsSeriesV0(heap[1])
    /\ Len(heap[1].data) < MaxLen
    /\ heap' = <<AppendV0(heap[1], v).s>>
    /\ call' = [op |-> "Append", p |-> 0, v |-> v]
    /\ result' = SeriesResult(AppendV0(heap[1], v))
    /\ UNCHANGED <<threads, locks, left, right, frame, view>>

DoAnySet(p, v) == ~IsSeriesV0(heap[1]) /\ DoSeriesSet(p, v)

DoAnyAppend(v) == ~IsSeriesV0(heap[1]) /\ DoSeriesAppend(v)

UnsetInit ==
    \/ SeriesBuilt(NewSeriesOfTypeV0("nil"))
    \/ \E values \in SeqsUpTo(SeriesValues, MaxLen) :
           /\ ~NewSeriesWithDataV0("nil", values).err
           /\ SeriesBuilt(NewSeriesWithDataV0("nil", values).s)
    \/ SeriesBuilt(NewSeriesOfType("other"))

UnsetNext ==
    \/ \E p \in 0..(MaxLen + 1), v \in SeriesValues : DoSetV0(p, v)
    \/ \E v \in SeriesValues : DoAppendV0(v)
    \/ \E p \in 0..(MaxLen + 1), v \in SeriesValues : DoAnySet(p, v)
    \/ \E v \in SeriesValues : DoAnyAppend(v)

UnsetSpec == UnsetInit /\ [][UnsetNext]_vars

\* the non-null values a Series holds
Stored(s) ==
    IF IsSeriesV0(s) THEN Range(s.data) \ {NilV}
    ELSE {s.data[p] : p \in {q \in DOMAIN s.data : ~s.mask[q]}} \ {NilV}

\* the call just made writes, at a valid place, a non-null value of another
\* type than a value the Series holds
LaterTypeWrite(c, s) ==
    /\ c.v # NilV
    /\ c.op = "Append" \/ c.p \in 1..Len(s.data)
    /\ \E x \in Stored(s) : x.t # c.v.t

\* C18: once a non-null value has been written to a Series constructed
\* with an unset element type, every Set or Append of a non-null value of
\* another type fails and the values held keep one type
C18_LaterTypeRefused ==
    [][LaterTypeWrite(call', heap[1]) =>
          /\ result'.err # ""
          /\ heap' = heap]_vars

\* C18, the earlier Series alone: the dtype, once set, never changes, is
\* the type of every value held, and a non-nil value of another type is
\* refused
C18_SeriesV0TypeFixed ==
    [][IsSeriesV0(heap[1]) =>
          /\ heap[1].dtype # "nil" => heap'[1].dtype = heap[1].dtype
          /\ \A x \in Stored(heap'[1]) : x.t = heap'[1].dtype
          /\ LaterTypeWrite(call', heap[1]) =>
                 result'.err = "type mismatch" /\ heap' = heap]_vars

\* an earlier Series whose dtype the first write fixed refused another type
C18_SeriesV0Refused ==
    /\ IsSeriesV0(heap[1])
    /\ call # NoCall
    /\ heap[1].dtype = "int64"
    /\ call.v = Val("string", 1)
    /\ result.err = "type mismatch"

\* an AnySeries holds values of two types
C18_AnySeriesMixed ==
    /\ ~IsSeriesV0(heap[1])
    /\ \E x, y \in Stored(heap[1]) : x.t # y.t

(***************************************************************************)
(* float64 arithmetic: a sum or a conversion is rounded to the nearest     *)
(* value with MantissaBits significant bits, ties to the even significand  *)
(***************************************************************************)
RECURSIVE Pow2(_)
Pow2(n) == IF n = 0 THEN 1 ELSE 2 * Pow2(n - 1)

\* the least power of two from which on not every integer is a float64
Big == Pow2(MantissaBits)

RECURSIVE Exponent(_, _)
Exponent(n, e) == IF n < Pow2(MantissaBits + e) THEN e ELSE Exponent(n, e + 1)

RoundMagnitude(n) ==
    LET unit == Pow2(Exponent(n, 0))
        q == n \div unit
        r == n % unit
    IN  IF 2 * r < unit THEN q * unit
        ELSE IF 2 * r > unit THEN (q + 1) * unit
        ELSE IF q % 2 = 0 THEN q * unit
        ELSE (q + 1) * unit

\* float64(x) of an integer x
Float64(x) == IF x < 0 THEN 0 - RoundMagnitude(0 - x) ELSE RoundMagnitude(x)

\* a + b of two float64
Add(a, b) == Float64(a + b)

RECURSIVE GCD(_, _)
GCD(a, b) == IF b = 0 THEN a ELSE GCD(b, a % b)

Abs(x) == IF x < 0 THEN 0 - x ELSE x

\* a / float64(count): the quotient as a fraction in lowest terms
Quotient(a, count) ==
    [num |-> a \div GCD(Abs(a), count), den |-> count \div GCD(Abs(a), count)]

(***************************************************************************)
(* Strings as sequences of characters, ordered as sort.Strings orders them *)
(***************************************************************************)
\* the characters of the runs, in the order of their codes
Chars == <<"-", "0", "1", "2", "3", "4", "5", "6", "7", "8", "9",
           "<", ">", "_", "i", "l", "n", "x", "y">>

\* the character "\x00", below every other
NUL == "\\x00"

Code(c) == IF c = NUL THEN 0 ELSE CHOOSE k \in DOMAIN Chars : Chars[k] = c

RECURSIVE StrLess(_, _)
StrLess(a, b) ==
    IF Len(b) = 0 THEN FALSE
    ELSE IF Len(a) = 0 THEN TRUE
    ELSE IF Code(Head(a)) # Code(Head(b)) THEN Code(Head(a)) < Code(Head(b))
    ELSE StrLess(Tail(a), Tail(b))

RECURSIVE Itoa(_)
Itoa(n) == IF n < 10 THEN <<Chars[n + 2]>>
           ELSE Itoa(n \div 10) \o <<Chars[(n % 10) + 2]>>

\* fmt.Sprintf("%v", val) of a nil, a string and an integer-valued number
Sprint(val) ==
    IF val.t = "nil" THEN <<"<", "n", "i", "l", ">">>
    ELSE IF val.t = "string" THEN val.v
    ELSE IF val.v < 0 THEN <<"-">> \o Itoa(0 - val.v)
    ELSE Itoa(val.v)

\* strings.Join
RECURSIVE Join(_, _)
Join(parts, sep) ==
    IF Len(parts) = 0 THEN <<>>
    ELSE IF Len(parts) = 1 THEN parts[1]
    ELSE parts[1] \o sep \o Join(Tail(parts), sep)

\* sort.Strings of a set of keys
RECURSIVE SortStrings(_)
SortStrings(keys) ==
    IF keys = {} THEN <<>>
    ELSE LET least == CHOOSE k \in keys : \A o \in keys \ {k} : StrLess(k, o)
         IN  <<least>> \o SortStrings(keys \ {least})

(***************************************************************************)
(* GroupBy (dataframe/groupby.go)                                          *)
(***************************************************************************)
\* DataFrame.Len: the row count the columns share
DataFrameLen(df) ==
    IF Len(df.ColumnOrder) = 0 THEN 0
    ELSE SeriesLen(df.Columns[df.ColumnOrder[1]])

NoGroupBy == [df |-> NilDF, groups |-> <<>>, colNames |-> <<>>]

\* the key of row i: the "%v" of its by-values joined with "_"
GroupKey(df, by, i) ==
    Join([j \in 1..Len(by) |-> Sprint(At(df.Columns[by[j]], i).val)], <<"_">>)

\* mutant: a key keeps its last row only
RowsOfLast(df, by, key) ==
    LET rows == SelectSeq([i \in 1..DataFrameLen(df) |-> i],
                          LAMBDA i : GroupKey(df, by, i) = key)
    IN  <<rows[Len(rows)]>>

\* groups[key]: the rows with that key, in row order
RowsOf(df, by, key) ==
    SelectSeq([i \in 1..DataFrameLen(df) |-> i],
              LAMBDA i : GroupKey(df, by, i) = key)

GroupBy(df, by, axis) ==
    IF axis # 0 THEN [err |-> "axis is not supported", gb |-> NoGroupBy]
    ELSE IF \E j \in DOMAIN by : ~HasColumn(df, by[j])
    THEN [err |-> "column not found", gb |-> NoGroupBy]
    ELSE IF \E i \in 1..DataFrameLen(df), j \in DOMAIN by :
                At(df.Columns[by[j]], i).err
    THEN [err |-> "index out of range", gb |-> NoGroupBy]
    ELSE [err |-> "",
          gb |-> [df |-> df,
                  groups |-> [key \in {GroupKey(df, by, i) :
                                           i \in 1..DataFrameLen(df)} |->
                                  RowsOf(df, by, key)],
                  colNames |-> by]]

getSortedKeys(gb) == SortStrings(DOMAIN gb.groups)

\* the non-null values of a Series, in order
Present(s) ==
    LET rows == SelectSeq([i \in 1..SeriesLen(s) |-> i],
                          LAMBDA i : ~IsNull(s, i))
    IN  [k \in 1..Len(rows) |-> At(s, rows[k]).val]

Numeric(vals) == \A k \in DOMAIN vals : vals[k].t \in {"float64", "int", "int64"}

RECURSIVE SumFrom(_, _, _)
SumFrom(vals, k, sum) ==
    IF k > Len(vals) THEN sum
    ELSE SumFrom(vals, k + 1, Add(sum, Float64(vals[k].v)))

RECURSIVE MinFrom(_, _, _)
MinFrom(vals, k, minVal) ==
    IF k > Len(vals) THEN minVal
    ELSE MinFrom(vals, k + 1,
                 IF Float64(vals[k].v) < minVal THEN Float64(vals[k].v)
                 ELSE minVal)

RECURSIVE MaxFrom(_, _, _)
MaxFrom(vals, k, maxVal) ==
    IF k > Len(vals) THEN maxVal
    ELSE MaxFrom(vals, k + 1,
                 IF Float64(vals[k].v) > maxVal THEN Float64(vals[k].v)
                 ELSE maxVal)

Aggregated(val) == [val |-> val, err |-> FALSE]

NonNumeric == [val |-> NilV, err |-> TRUE]

\* mutant: a Sum over no value is null, as a Mean over no value is
SumNullOfNone(s) ==
    IF ~Numeric(Present(s)) THEN NonNumeric
    ELSE IF Len(Present(s)) = 0 THEN Aggregated(NilV)
    ELSE Aggregated(Val("float64", SumFrom(Present(s), 1, 0)))

\* the function Sum hands to aggregate
Sum(s) ==
    IF ~Numeric(Present(s)) THEN NonNumeric
    ELSE Aggregated(Val("float64", SumFrom(Present(s), 1, 0)))

\* the function Mean hands to aggregate
Mean(s) ==
    IF ~Numeric(Present(s)) THEN NonNumeric
    ELSE IF Len(Present(s)) = 0 THEN Aggregated(NilV)
    ELSE Aggregated(Val("float64", Quotient(SumFrom(Present(s), 1, 0),
                                            Len(Present(s)))))

\* the function Min hands to aggregate
Min(s) ==
    IF ~Numeric(Present(s)) THEN NonNumeric
    ELSE IF Len(Present(s)) = 0 THEN Aggregated(NilV)
    ELSE Aggregated(Val("float64",
                        MinFrom(Present(s), 2, Float64(Present(s)[1].v))))

\* the function Max hands to aggregate
Max(s) ==
    IF ~Numeric(Present(s)) THEN NonNumeric
    ELSE IF Len(Present(s)) = 0 THEN Aggregated(NilV)
    ELSE Aggregated(Val("float64",
                        MaxFrom(Present(s), 2, Float64(Present(s)[1].v))))

AggFuncs == {"Sum", "Mean", "Min", "Max"}

aggFunc(f, s) ==
    CASE f = "Sum" -> Sum(s)
      [] f = "Mean" -> Mean(s)
      [] f = "Min" -> Min(s)
      [] f = "Max" -> Max(s)

\* the temporary Series of one column restricted to the rows of a group
groupSeries(originalSeries, indices) ==
    [dtype |-> DType(originalSeries),
     data |-> [k \in 1..Len(indices) |->
                  IF IsNull(originalSeries, indices[k])
                  THEN Zero(DType(originalSeries))
                  ELSE At(originalSeries, indices[k]).val],
     mask |-> [k \in 1..Len(indices) |-> IsNull(originalSeries, indices[k])]]

\* one slot of a result column after Set(i, v) on its zero value
SlotSet(dtype, v) == SeriesSet(NewSeriesOfTypeWithSize(dtype, 1), 1, v).s

\* mutant: the slot of a failed reduction is left as it was made
SlotUntouched(dtype) == NewSeriesOfTypeWithSize(dtype, 1)

\* one slot of a result column after SetNull(i)
SlotNull(dtype) == SetNull(NewSeriesOfTypeWithSize(dtype, 1), 1).s

SeriesOfSlots(dtype, slots) ==
    [dtype |-> dtype,
     data |-> [i \in DOMAIN slots |-> slots[i].data[1]],
     mask |-> [i \in DOMAIN slots |-> slots[i].mask[1]]]

aggregate(gb, f) ==
    LET sortedKeys == getSortedKeys(gb)
        numGroups == Len(sortedKeys)
        resultOrder ==
            gb.colNames \o SelectSeq(gb.df.ColumnOrder,
                                     LAMBDA c : c \notin Range(gb.colNames))
        keySlot(c, i) ==
            SlotSet("string",
                    Val("string",
                        Sprint(At(gb.df.Columns[c],
                                  gb.groups[sortedKeys[i]][1]).val)))
        aggSlot(c, i) ==
            LET r == aggFunc(f, groupSeries(gb.df.Columns[c],
                                            gb.groups[sortedKeys[i]]))
            IN  IF r.err THEN SlotNull("float64")
                ELSE SlotSet("float64", r.val)
    IN  DataFrame([c \in Range(resultOrder) |->
                      IF c \in Range(gb.colNames)
                      THEN SeriesOfSlots("string",
                               [i \in 1..numGroups |-> keySlot(c, i)])
                      ELSE SeriesOfSlots("float64",
                               [i \in 1..numGroups |-> aggSlot(c, i)])],
                  resultOrder, DefaultIndex(numGroups))

\* df.GroupBy(by, axis) and then the aggregation f of the grouping
Aggregation(df, by, axis, f) ==
    IF GroupBy(df, by, axis).err # ""
    THEN [err |-> GroupBy(df, by, axis).err, df |-> NilDF]
    ELSE [err |-> "", df |-> aggregate(GroupBy(df, by, axis).gb, f)]

(***************************************************************************)
(* The GroupBy runs: a DataFrame of two string columns A and B and a       *)
(* float64 column V (frame.Columns holds the Series themselves), then one  *)
(* GroupBy call and one aggregation of the grouping                        *)
(***************************************************************************)
GroupRows ==
    [A : {<<"x">>, <<"x", "_">>},
     B : {<<"x">>, <<"_", "x">>},
     V : {Val("float64", 1), Val("float64", Big), Val("float64", 0 - Big), NilV}]

\* the DataFrame of the given rows
FrameOf(rows) ==
    DataFrame(
        [c \in {"A", "B", "V"} |->
            IF c = "A"
            THEN NewSeriesFromData("string",
                     [i \in DOMAIN rows |-> Val("string", rows[i].A)],
                     FALSE, <<>>).s
            ELSE IF c = "B"
            THEN NewSeriesFromData("string",
                     [i \in DOMAIN rows |-> Val("string", rows[i].B)],
                     FALSE, <<>>).s
            ELSE NewSeriesFromData("float64",
                     [i \in DOMAIN rows |->
                         IF rows[i].V = NilV THEN Zero("float64")
                         ELSE rows[i].V],
                     TRUE, [i \in DOMAIN rows |-> rows[i].V = NilV]).s],
        <<"A", "B", "V">>, DefaultIndex(Len(rows)))

ByArgs == {<<"A">>, <<"A", "B">>, <<"V">>, <<"Z">>}

GroupResult(r) == [err |-> r.err, df |-> r.df, rows |-> <<>>]

DoAggregation(f, by, axis) ==
    /\ call = NoCall
    /\ call' = [op |-> f, by |-> by, axis |-> axis]
    /\ result' = GroupResult(Aggregation(frame, by, axis, f))
    /\ UNCHANGED <<threads, locks, left, right, frame, view, heap>>

DoSum(by, axis) == DoAggregation("Sum", by, axis)

DoMean(by, axis) == DoAggregation("Mean", by, axis)

DoMin(by, axis) == DoAggregation("Min", by, axis)

DoMax(by, axis) == DoAggregation("Max", by, axis)

GroupInit ==
    \E rows \in SeqsUpTo(GroupRows, MaxGroupRows) :
        /\ frame = FrameOf(rows)
        /\ heap = <<>>
        /\ view = NilDF
        /\ call = NoCall
        /\ result = NoResult
        /\ left = NilDF
        /\ right = NilDF
        /\ threads = <<>>
        /\ locks = <<>>

\* by and axis of the GroupBy calls: every by along the rows, and one call
\* along the columns, which GroupBy refuses whatever by is
GroupArgs == {<<by, 0>> : by \in ByArgs} \cup {<<<<"A">>, 1>>}

GroupNext ==
    \/ \E a \in GroupArgs : DoSum(a[1], a[2])
    \/ \E a \in GroupArgs : DoMean(a[1], a[2])
    \/ \E a \in GroupArgs : DoMin(a[1], a[2])
    \/ \E a \in GroupArgs : DoMax(a[1], a[2])

GroupSpec == GroupInit /\ [][GroupNext]_vars

(***************************************************************************)
(* Properties of GroupBy                                                   *)
(***************************************************************************)
RowOrders(n) ==
    {p \in [1..n -> 1..n] : \A i, j \in 1..n : p[i] = p[j] => i = j}

PermuteSeries(s, p) ==
    [s EXCEPT !.data = [i \in DOMAIN s.data |-> s.data[p[i]]],
              !.mask = [i \in DOMAIN s.mask |-> s.mask[p[i]]]]

\* the DataFrame with the same rows in the order p
PermuteRows(df, p) ==
    [df EXCEPT !.Columns = [c \in DOMAIN df.Columns |->
                               PermuteSeries(df.Columns[c], p)]]

AggregationDone == call # NoCall /\ result.err = ""

\* the composite key of row i of an aggregation result
ResultKey(df, by, i) ==
    Join([j \in 1..Len(by) |-> At(df.Columns[by[j]], i).val.v], <<"_">>)

\* C19, first half: the rows of an aggregation result are in strictly
\* ascending order of the composite group key
C19_RowsInKeyOrder ==
    AggregationDone =>
        \A i, j \in 1..DataFrameLen(result.df) :
            i < j => StrLess(ResultKey(result.df, call.by, i),
                             ResultKey(result.df, call.by, j))

\* C19: the aggregation of a DataFrame is the aggregation of every
\* DataFrame that holds the same rows in another order
C19_RowOrderIrrelevant ==
    AggregationDone =>
        \A p \in RowOrders(DataFrameLen(frame)) :
            Aggregation(PermuteRows(frame, p), call.by, call.axis, call.op).df
                = result.df

\* C19 with no two rows sharing a key but not their by-values, and with
\* Min and Max only, which do not add
C19_RowOrderIrrelevantMinMax ==
    /\ AggregationDone
    /\ call.op \in {"Min", "Max"}
    /\ \A i, j \in 1..DataFrameLen(frame) :
           GroupKey(frame, call.by, i) = GroupKey(frame, call.by, j) =>
               \A k \in DOMAIN call.by :
                   At(frame.Columns[call.by[k]], i)
                       = At(frame.Columns[call.by[k]], j)
    => \A p \in RowOrders(DataFrameLen(frame)) :
           Aggregation(PermuteRows(frame, p), call.by, call.axis, call.op).df
               = result.df

\* two rows with different by-values share a key: ("x_", "x") and
\* ("x", "_x") are both "x__x"
C19_KeyCollision ==
    /\ AggregationDone
    /\ call.by = <<"A", "B">>
    /\ DataFrameLen(frame) = 2
    /\ DataFrameLen(result.df) = 1
    /\ At(frame.Columns["A"], 1) # At(frame.Columns["A"], 2)

RECURSIVE ExactFrom(_, _, _)
ExactFrom(vals, k, sum) ==
    \/ k > Len(vals)
    \/ /\ Float64(vals[k].v) = vals[k].v
       /\ Float64(sum + vals[k].v) = sum + vals[k].v
       /\ ExactFrom(vals, k + 1, sum + vals[k].v)

\* Sum was computed, and neither the sums of the groups, nor the sum of
\* these sums, nor the sum of the whole column rounded
C20_NoSumRounds ==
    /\ AggregationDone
    /\ call.op = "Sum"
    /\ "V" \notin Range(call.by)
    /\ ExactFrom(Present(frame.Columns["V"]), 1, 0)
    /\ ExactFrom(Present(result.df.Columns["V"]), 1, 0)
    /\ \A i \in 1..DataFrameLen(frame) :
           ExactFrom(Present(groupSeries(frame.Columns["V"],
                                         RowsOf(frame, call.by,
                                                GroupKey(frame, call.by, i)))),
                     1, 0)

GroupOfRow(i) ==
    GroupBy(frame, call.by, 0).gb.groups[
        getSortedKeys(GroupBy(frame, call.by, 0).gb)[i]]

\* every entry of column c in the group of result row i is null
AllNullIn(c, i) ==
    \A k \in DOMAIN GroupOfRow(i) : IsNull(frame.Columns[c], GroupOfRow(i)[k])

\* C21: for a group and a column whose entries are all null, Sum yields
\* the non-null value 0, and Mean, Min and Max yield null
C21_AllNullGroup ==
    AggregationDone /\ "V" \notin Range(call.by) =>
        LET gb == GroupBy(frame, call.by, 0).gb
            sortedKeys == getSortedKeys(gb)
        IN  \A i \in 1..DataFrameLen(result.df) :
                (\A k \in DOMAIN gb.groups[sortedKeys[i]] :
                    IsNull(frame.Columns["V"], gb.groups[sortedKeys[i]][k])) =>
                    IF call.op = "Sum"
                    THEN At(result.df.Columns["V"], i)
                             = [val |-> Val("float64", 0), err |-> FALSE]
                    ELSE IsNull(result.df.Columns["V"], i)

\* Sum was taken over a group of two rows, both null in V, next to a
\* group with a value
C21_Witness ==
    /\ AggregationDone
    /\ call.op = "Sum"
    /\ call.by = <<"A">>
    /\ DataFrameLen(result.df) = 2
    /\ Len(GroupOfRow(1)) = 2
    /\ AllNullIn("V", 1)
    /\ ~AllNullIn("V", 2)
    /\ ~IsNull(result.df.Columns["V"], 1)

\* Mean, Min or Max was taken over such a group
C21_NullOfNone ==
    /\ AggregationDone
    /\ call.op \in {"Mean", "Min", "Max"}
    /\ call.by = <<"A">>
    /\ DataFrameLen(result.df) = 2
    /\ AllNullIn("V", 1)
    /\ IsNull(result.df.Columns["V"], 1)

(***************************************************************************)
(* The mixed-column runs: the GroupBy runs over a DataFrame with a string  *)
(* column A, a float64 column V and an AnySeries column W that holds       *)
(* numbers and strings                                                     *)
(***************************************************************************)
MixedRows ==
    [A : {<<"x">>, <<"x", "_">>},
     V : {Val("float64", 1), NilV},
     W : {Val("int64", 1), Val("string", <<"x">>), NilV}]

MixedFrameOf(rows) ==
    DataFrame(
        [c \in {"A", "V", "W"} |->
            IF c = "A"
            THEN NewSeriesFromData("string",
                     [i \in DOMAIN rows |-> Val("string", rows[i].A)],
                     FALSE, <<>>).s
            ELSE IF c = "V"
            THEN NewSeriesFromData("float64",
                     [i \in DOMAIN rows |->
                         IF rows[i].V = NilV THEN Zero("float64")
                         ELSE rows[i].V],
                     TRUE, [i \in DOMAIN rows |-> rows[i].V = NilV]).s
            ELSE NewSeriesFromData("any",
                     [i \in DOMAIN rows |-> rows[i].W],
                     TRUE, [i \in DOMAIN rows |-> rows[i].W = NilV]).s],
        <<"A", "V", "W">>, DefaultIndex(Len(rows)))

MixedInit ==
    \E rows \in SeqsUpTo(MixedRows, MaxGroupRows) :
        /\ frame = MixedFrameOf(rows)
        /\ heap = <<>>
        /\ view = NilDF
        /\ call = NoCall
        /\ result = NoResult
        /\ left = NilDF
        /\ right = NilDF
        /\ threads = <<>>
        /\ locks = <<>>

MixedSpec == MixedInit /\ [][GroupNext]_vars

\* row r of column W holds a non-null value that is no number
Offending(df, r) ==
    /\ ~IsNull(df.Columns["W"], r)
    /\ At(df.Columns["W"], r).val.t \notin {"float64", "int", "int64"}

\* the DataFrame without the offending values: null in their place
WithoutOffending(df) ==
    [df EXCEPT !.Columns["W"] =
        [@ EXCEPT !.data = [r \in DOMAIN @ |->
                               IF Offending(df, r) THEN NilV ELSE @[r]],
                  !.mask = [r \in DOMAIN @ |-> Offending(df, r) \/ @[r]]]]

\* the group of result row i holds an offending value
OffendingIn(i) ==
    \E k \in DOMAIN GroupOfRow(i) : Offending(frame, GroupOfRow(i)[k])

ResultCell(df, c, i) ==
    [val |-> At(df.Columns[c], i).val, null |-> IsNull(df.Columns[c], i)]

\* C22: when a reduction meets a non-null value that is no number, the
\* aggregation returns a DataFrame and no error, the cell of that group
\* and column is null, and every other cell is what it is without the
\* offending values
C22_CellRecovered ==
    /\ call # NoCall
    /\ call.axis = 0
    /\ \A j \in DOMAIN call.by : call.by[j] \in {"A", "V"}
    => LET without == Aggregation(WithoutOffending(frame), call.by, 0,
                                  call.op).df
       IN  /\ result.err = ""
           /\ ~result.df.nil
           /\ result.df.ColumnOrder = without.ColumnOrder
           /\ \A i \in 1..DataFrameLen(result.df) :
                  \A c \in Range(result.df.ColumnOrder) :
                      IF c = "W" /\ OffendingIn(i)
                      THEN IsNull(result.df.Columns[c], i)
                      ELSE ResultCell(result.df, c, i)
                               = ResultCell(without, c, i)

\* a group of two rows held a number and a string in W, next to a group
\* whose W was summed
C22_Witness ==
    /\ AggregationDone
    /\ call.op = "Sum"
    /\ call.by = <<"A">>
    /\ DataFrameLen(result.df) = 2
    /\ Len(GroupOfRow(1)) = 2
    /\ OffendingIn(1)
    /\ \E k \in DOMAIN GroupOfRow(1) :
           At(frame.Columns["W"], GroupOfRow(1)[k]).val = Val("int64", 1)
    /\ IsNull(result.df.Columns["W"], 1)
    /\ At(result.df.Columns["W"], 2).val = Val("float64", 1)
    /\ At(result.df.Columns["V"], 1).val = Val("float64", 1)

(***************************************************************************)
(* GroupBy.Apply (dataframe/groupby.go)                                    *)
(***************************************************************************)
\* DataFrame.Slice(indices): an independent copy of the given rows
SliceSeries(s, indices) ==
    [dtype |-> s.dtype,
     data |-> [k \in DOMAIN indices |-> s.data[indices[k]]],
     mask |-> [k \in DOMAIN indices |-> s.mask[indices[k]]]]

Slice(df, indices) ==
    DataFrame([c \in DOMAIN df.Columns |-> SliceSeries(df.Columns[c], indices)],
              df.ColumnOrder,
              [k \in DOMAIN indices |-> df.Index[indices[k]]])

\* the functions handed to Apply in the runs; each returns a DataFrame of
\* its own, nil, or an error
FnKinds == {"same", "head", "ints", "drop", "nil", "error"}

\* column V as an Int64Series of the same numbers
AsInts(s) ==
    [dtype |-> "int64",
     data |-> [p \in DOMAIN s.data |-> Val("int64", s.data[p].v)],
     mask |-> s.mask]

Without(df, name) ==
    DataFrame([c \in DOMAIN df.Columns \ {name} |-> df.Columns[c]],
              SelectSeq(df.ColumnOrder, LAMBDA c : c # name), df.Index)

fn(kind, d) ==
    CASE kind = "same" -> [err |-> FALSE, df |-> d]
      [] kind = "head" -> [err |-> FALSE, df |-> Slice(d, <<1>>)]
      [] kind = "ints" ->
             [err |-> FALSE,
              df |-> [d EXCEPT !.Columns["V"] = AsInts(d.Columns["V"])]]
      [] kind = "drop" -> [err |-> FALSE, df |-> Without(d, "V")]
      [] kind = "nil" -> [err |-> FALSE, df |-> NilDF]
      [] kind = "error" -> [err |-> TRUE, df |-> NilDF]

\* finalSeries after the values of series from i on were appended to it,
\* the error of Append dropped
RECURSIVE AppendFrom(_, _, _)
AppendFrom(finalSeries, series, i) ==
    IF i > SeriesLen(series) THEN finalSeries
    ELSE IF IsNull(series, i)
    THEN AppendFrom(AppendNull(finalSeries), series, i + 1)
    ELSE AppendFrom(SeriesAppend(finalSeries, At(series, i).val).s,
                    series, i + 1)

\* finalDF after part was appended to it; a column of part that finalDF
\* lacks is a method call on a nil Series
AppendPart(finalDF, part) ==
    IF finalDF.nil \/ \E c \in DOMAIN part.Columns : ~HasColumn(finalDF, c)
    THEN NilDF
    ELSE [finalDF EXCEPT
             !.Columns = [c \in DOMAIN finalDF.Columns |->
                             IF HasColumn(part, c)
                             THEN AppendFrom(finalDF.Columns[c],
                                             part.Columns[c], 1)
                             ELSE finalDF.Columns[c]],
             !.Index = @ \o part.Index]

RECURSIVE AppendParts(_, _, _)
AppendParts(finalDF, resultParts, k) ==
    IF k > Len(resultParts) THEN finalDF
    ELSE AppendParts(AppendPart(finalDF, resultParts[k]), resultParts, k + 1)

\* Apply with the k-th call of fn being of kind kinds[k]: the error, the
\* DataFrame returned and the calls made, each with its key and its result
Apply(gb, kinds) ==
    LET sortedKeys == getSortedKeys(gb)
        res == [k \in DOMAIN sortedKeys |->
                   [key |-> sortedKeys[k],
                    err |-> fn(kinds[k],
                               Slice(gb.df, gb.groups[sortedKeys[k]])).err,
                    df |-> fn(kinds[k],
                              Slice(gb.df, gb.groups[sortedKeys[k]])).df]]
        failed == {k \in DOMAIN res : res[k].err}
        resultParts == SelectSeq(res, LAMBDA r : ~r.df.nil)
        finalDF == AppendParts(resultParts[1].df,
                               [k \in DOMAIN resultParts |->
                                   resultParts[k].df], 2)
    IN  IF failed # {}
        THEN [err |-> "fn failed", df |-> NilDF,
              rows |-> SubSeq(res, 1, CHOOSE k \in failed :
                                          \A o \in failed : k <= o)]
        ELSE IF Len(resultParts) = 0
        THEN [err |-> "", df |-> NilDF, rows |-> res]
        ELSE IF finalDF.nil
        THEN [err |-> "panic", df |-> NilDF, rows |-> res]
        ELSE [err |-> "", df |-> finalDF, rows |-> res]

(***************************************************************************)
(* The Apply runs: a DataFrame of a string column A and a float64 column   *)
(* V, one GroupBy call and one Apply on the grouping; result.rows holds    *)
(* the calls of fn in the order they were made                             *)
(***************************************************************************)
ApplyRows == [A : {<<"x">>, <<"x", "_">>}, V : {Val("float64", 1), NilV}]

ApplyFrameOf(rows) ==
    DataFrame(
        [c \in {"A", "V"} |->
            IF c = "A"
            THEN NewSeriesFromData("string",
                     [i \in DOMAIN rows |-> Val("string", rows[i].A)],
                     FALSE, <<>>).s
            ELSE NewSeriesFromData("float64",
                     [i \in DOMAIN rows |->
                         IF rows[i].V = NilV THEN Zero("float64")
                         ELSE rows[i].V],
                     TRUE, [i \in DOMAIN rows |-> rows[i].V = NilV]).s],
        <<"A", "V">>, DefaultIndex(Len(rows)))

DoApply(by, kinds) ==
    /\ call = NoCall
    /\ call' = [op |-> "Apply", by |-> by, axis |-> 0, fn |-> kinds]
    /\ result' = IF GroupBy(frame, by, 0).err # ""
                 THEN [err |-> GroupBy(frame, by, 0).err, df |-> NilDF,
                       rows |-> <<>>]
                 ELSE Apply(GroupBy(frame, by, 0).gb, kinds)
    /\ UNCHANGED <<threads, locks, left, right, frame, view, heap>>

ApplyInit ==
    \E rows \in SeqsUpTo(ApplyRows, MaxGroupRows) :
        /\ frame = ApplyFrameOf(rows)
        /\ heap = <<>>
        /\ view = NilDF
        /\ call = NoCall
        /\ result = NoResult
        /\ left = NilDF
        /\ right = NilDF
        /\ threads = <<>>
        /\ locks = <<>>

ApplyNext ==
    \E by \in {<<"A">>, <<"A", "V">>, <<"Z">>},
       kinds \in [1..MaxGroupRows -> FnKinds] : DoApply(by, kinds)

ApplySpec == ApplyInit /\ [][ApplyNext]_vars

\* the cells of column c of the DataFrames of parts, one after the other
ConcatCells(parts, c) ==
    FlattenSeq([k \in DOMAIN parts |->
                   [i \in 1..SeriesLen(parts[k].df.Columns[c]) |->
                       ResultCell(parts[k].df, c, i)]])

\* Apply returned a DataFrame
Applied == call # NoCall /\ call.op = "Apply" /\ result.err = "" /\ ~result.df.nil

\* the results of fn that are DataFrames, in the order of the calls
PartsOf(res) == SelectSeq(res, LAMBDA r : ~r.df.nil)

\* C23, the calls: Apply that returns without error has called fn once
\* for each group, in ascending order of the key
C23_CallsInKeyOrder ==
    call # NoCall /\ call.op = "Apply" /\ result.err = "" =>
        /\ [k \in DOMAIN result.rows |-> result.rows[k].key]
               = getSortedKeys(GroupBy(frame, call.by, 0).gb)
        /\ \A i, j \in DOMAIN result.rows :
               i < j => StrLess(result.rows[i].key, result.rows[j].key)

\* C23: the DataFrame Apply returns is the concatenation of the group
\* results in the order of the calls: each column of each result, and the
\* index
C23_ApplyConcatenates ==
    Applied =>
        /\ result.df.Index
               = FlattenSeq([k \in DOMAIN PartsOf(result.rows) |->
                                PartsOf(result.rows)[k].df.Index])
        /\ \A k \in DOMAIN PartsOf(result.rows) :
               DOMAIN PartsOf(result.rows)[k].df.Columns
                   = DOMAIN result.df.Columns
        /\ \A c \in DOMAIN result.df.Columns :
               [i \in 1..SeriesLen(result.df.Columns[c]) |->
                   ResultCell(result.df, c, i)]
                   = ConcatCells(PartsOf(result.rows), c)

\* C23 for results of one structure: the same columns of the same types
C23_ConcatenatesAlike ==
    /\ Applied
    /\ \A k \in DOMAIN PartsOf(result.rows) :
           /\ DOMAIN PartsOf(result.rows)[k].df.Columns
                  = DOMAIN result.df.Columns
           /\ \A c \in DOMAIN result.df.Columns :
                  DType(PartsOf(result.rows)[k].df.Columns[c])
                      = DType(result.df.Columns[c])
    => /\ result.df.Index
              = FlattenSeq([k \in DOMAIN PartsOf(result.rows) |->
                               PartsOf(result.rows)[k].df.Index])
       /\ \A c \in DOMAIN result.df.Columns :
              [i \in 1..SeriesLen(result.df.Columns[c]) |->
                  ResultCell(result.df, c, i)]
                  = ConcatCells(PartsOf(result.rows), c)

\* two group results of one structure were concatenated
C23_Concatenated ==
    /\ Applied
    /\ Len(PartsOf(result.rows)) = 2
    /\ DataFrameLen(result.df) = MaxGroupRows
    /\ \A k \in 1..2 : call.fn[k] = "same"

\* a float64 column was followed by an int64 column and lost its rows
C23_RowsLost ==
    /\ Applied
    /\ call.fn[1] = "same"
    /\ call.fn[2] = "ints"
    /\ Len(PartsOf(result.rows)) = 2
    /\ SeriesLen(result.df.Columns["V"]) < SeriesLen(result.df.Columns["A"])

(***************************************************************************)
(* PivotTable (dataframe/pivot.go)                                         *)
(***************************************************************************)
\* a string of characters as a column name
RECURSIVE Str(_)
Str(s) == IF Len(s) = 0 THEN "" ELSE Head(s) \o Str(Tail(s))

\* toFloat64: the float64 of a number, and whether val is one
toFloat64(val) ==
    IF val.t \in {"float64", "int", "int64"}
    THEN [val |-> Float64(val.v), ok |-> TRUE]
    ELSE [val |-> 0, ok |-> FALSE]

RECURSIVE FloatSum(_, _, _)
FloatSum(values, k, sum) ==
    IF k > Len(values) THEN sum
    ELSE FloatSum(values, k + 1, Add(sum, values[k]))

RECURSIVE FloatMin(_, _, _)
FloatMin(values, k, min) ==
    IF k > Len(values) THEN min
    ELSE FloatMin(values, k + 1, IF values[k] < min THEN values[k] ELSE min)

RECURSIVE FloatMax(_, _, _)
FloatMax(values, k, max) ==
    IF k > Len(values) THEN max
    ELSE FloatMax(values, k + 1, IF values[k] > max THEN values[k] ELSE max)

\* aggregate(values, aggFunc) of pivot.go: the payload of the float64
pivotAggregate(values, fun) ==
    IF Len(values) = 0 THEN 0
    ELSE CASE fun = "sum" -> FloatSum(values, 1, 0)
           [] fun = "mean" -> Quotient(FloatSum(values, 1, 0), Len(values))
           [] fun = "count" -> Float64(Len(values))
           [] fun = "min" -> FloatMin(values, 2, values[1])
           [] fun = "max" -> FloatMax(values, 2, values[1])
           [] OTHER -> Quotient(FloatSum(values, 1, 0), Len(values))

\* keyParts of row i: the "%v" of its index values
KeyParts(df, index, i) ==
    [j \in 1..Len(index) |-> Sprint(At(df.Columns[index[j]], i).val)]

\* the key of row i: its keyParts joined with "\x00"
IndexKey(df, index, i) == Join(KeyParts(df, index, i), <<NUL>>)

\* indexKeys[key]: the keyParts of the first row with that key
IndexVals(df, index, key) ==
    KeyParts(df, index,
             CHOOSE i \in 1..DataFrameLen(df) :
                 /\ IndexKey(df, index, i) = key
                 /\ \A h \in 1..(i - 1) : IndexKey(df, index, h) # key)

\* aggData[indexKey][colVal][valCol]: the float64 values of the rows with
\* that index key and that value in the columns column, in row order
AggData(df, opts, indexKey, colVal, valCol) ==
    LET rows == SelectSeq([i \in 1..DataFrameLen(df) |-> i],
                    LAMBDA i :
                        /\ IndexKey(df, opts.Index, i) = indexKey
                        /\ ~IsNull(df.Columns[opts.Columns], i)
                        /\ Sprint(At(df.Columns[opts.Columns], i).val) = colVal
                        /\ ~IsNull(df.Columns[valCol], i)
                        /\ toFloat64(At(df.Columns[valCol], i).val).ok)
    IN  [k \in 1..Len(rows) |-> toFloat64(At(df.Columns[valCol], rows[k]).val).val]

\* the name of the result column of a value column and a column value
PivotColName(opts, valCol, colVal) ==
    IF Len(opts.Values) = 1 THEN Str(colVal)
    ELSE valCol \o "_" \o Str(colVal)

\* the calls of Set and SetNull on the result columns, one after the other;
\* what they return is dropped
RECURSIVE FillIn(_, _)
FillIn(resultCols, writes) ==
    IF Len(writes) = 0 THEN resultCols
    ELSE FillIn([resultCols EXCEPT ![Head(writes).col] =
                    IF Head(writes).null THEN SetNull(@, Head(writes).row).s
                    ELSE SeriesSet(@, Head(writes).row, Head(writes).val).s],
                Tail(writes))

\* the write of one cell of a value column
CellWrite(df, opts, rowIdx, indexKey, valCol, colVal) ==
    LET values == AggData(df, opts, indexKey, colVal, valCol)
        colName == PivotColName(opts, valCol, colVal)
    IN  IF Len(values) = 0
        THEN IF opts.FillValue # NilV
             THEN [col |-> colName, row |-> rowIdx, null |-> FALSE,
                   val |-> opts.FillValue]
             ELSE [col |-> colName, row |-> rowIdx, null |-> TRUE, val |-> NilV]
        ELSE [col |-> colName, row |-> rowIdx, null |-> FALSE,
              val |-> Val("float64", pivotAggregate(values, opts.AggFunc))]

PivotError(msg) == [err |-> msg, df |-> NilDF]

PivotTable(df, opts) ==
    IF df.nil THEN PivotError("DataFrame is nil")
    ELSE IF Len(opts.Index) = 0
    THEN PivotError("Index column(s) must be specified")
    ELSE IF opts.Columns = ""
    THEN PivotError("Columns parameter must be specified")
    ELSE IF Len(opts.Values) = 0
    THEN PivotError("Values column(s) must be specified")
    ELSE IF \E c \in Range(opts.Index) : c \notin DOMAIN df.Columns
    THEN PivotError("index column not found")
    ELSE IF opts.Columns \notin DOMAIN df.Columns
    THEN PivotError("columns column not found")
    ELSE IF \E c \in Range(opts.Values) : c \notin DOMAIN df.Columns
    THEN PivotError("values column not found")
    ELSE
    LET o == [opts EXCEPT !.AggFunc = IF @ = "" THEN "mean" ELSE @]
        numRows == DataFrameLen(df)
        sortedColumnValues ==
            SortStrings({Sprint(At(df.Columns[o.Columns], i).val) :
                            i \in {r \in 1..numRows :
                                      ~IsNull(df.Columns[o.Columns], r)}})
        sortedIndexKeys ==
            SortStrings({IndexKey(df, o.Index, i) : i \in 1..numRows})
        numResultRows == Len(sortedIndexKeys)
        valueNames ==
            FlattenSeq([v \in 1..Len(o.Values) |->
                [c \in 1..Len(sortedColumnValues) |->
                    PivotColName(o, o.Values[v], sortedColumnValues[c])]])
        resultOrder == o.Index \o valueNames
        resultCols ==
            [c \in Range(resultOrder) |->
                IF c \in Range(valueNames)
                THEN NewSeriesFromData("float64",
                         [p \in 1..numResultRows |-> Zero("float64")],
                         FALSE, <<>>).s
                ELSE NewSeriesFromData("string",
                         [p \in 1..numResultRows |-> Zero("string")],
                         FALSE, <<>>).s]
        rowWrites(rowIdx) ==
            [j \in 1..Len(o.Index) |->
                [col |-> o.Index[j], row |-> rowIdx, null |-> FALSE,
                 val |-> Val("string",
                             IndexVals(df, o.Index, sortedIndexKeys[rowIdx])[j])]]
            \o FlattenSeq([v \in 1..Len(o.Values) |->
                  [c \in 1..Len(sortedColumnValues) |->
                      CellWrite(df, o, rowIdx, sortedIndexKeys[rowIdx],
                                o.Values[v], sortedColumnValues[c])]])
    IN  [err |-> "",
         df |-> DataFrame(
                    FillIn(resultCols,
                           FlattenSeq([r \in 1..numResultRows |-> rowWrites(r)])),
                    resultOrder, DefaultIndex(numResultRows))]

(***************************************************************************)
(* The PivotTable runs: a DataFrame of the string columns A, B and C and a *)
(* float64 column V (C and V hold nulls), then one PivotTable call         *)
(***************************************************************************)
MaxPivotRows == 3

PivotRows ==
    [A : {<<"x">>, <<"x", NUL>>}, B : {<<"x">>, <<NUL, "x">>},
     C : {Val("string", <<"x">>)}, V : {Val("float64", 1)}]
    \cup
    [A : {<<"x">>, <<"y">>}, B : {<<"x">>},
     C : {Val("string", <<"x">>), Val("string", <<"y">>), NilV},
     V : {Val("float64", 1), Val("float64", Big), Val("float64", 0 - Big), NilV}]

\* the DataFrame of the given rows
PivotFrameOf(rows) ==
    DataFrame(
        [c \in {"A", "B", "C", "V"} |->
            IF c = "A"
            THEN NewSeriesFromData("string",
                     [i \in DOMAIN rows |-> Val("string", rows[i].A)],
                     FALSE, <<>>).s
            ELSE IF c = "B"
            THEN NewSeriesFromData("string",
                     [i \in DOMAIN rows |-> Val("string", rows[i].B)],
                     FALSE, <<>>).s
            ELSE IF c = "C"
            THEN NewSeriesFromData("string",
                     [i \in DOMAIN rows |->
                         IF rows[i].C = NilV THEN Zero("string")
                         ELSE rows[i].C],
                     TRUE, [i \in DOMAIN rows |-> rows[i].C = NilV]).s
            ELSE NewSeriesFromData("float64",
                     [i \in DOMAIN rows |->
                         IF rows[i].V = NilV THEN Zero("float64")
                         ELSE rows[i].V],
                     TRUE, [i \in DOMAIN rows |-> rows[i].V = NilV]).s],
        <<"A", "B", "C", "V">>, DefaultIndex(Len(rows)))

PivotTableOptions(index, columns, values, fun, fill) ==
    [Index |-> index, Columns |-> columns, Values |-> values,
     AggFunc |-> fun, FillValue |-> fill]

\* the options of the calls: every aggregation of V by A over C, a sum by A
\* and B, a sum with a float64 and with an int fill value, a sum of two value
\* columns, and the options PivotTable refuses
PivotCalls ==
    {PivotTableOptions(<<"A">>, "C", <<"V">>, f, NilV) :
        f \in {"sum", "mean", "count", "min", "max", ""}}
    \cup {PivotTableOptions(<<"A", "B">>, "C", <<"V">>, "sum", NilV)}
    \cup {PivotTableOptions(<<"A">>, "C", <<"V">>, "sum", fill) :
            fill \in {Val("float64", 2), Val("int", 1)}}
    \cup {PivotTableOptions(<<"A">>, "C", <<"V", "A">>, "sum", NilV)}
    \cup {PivotTableOptions(<<>>, "C", <<"V">>, "sum", NilV),
          PivotTableOptions(<<"A">>, "", <<"V">>, "sum", NilV),
          PivotTableOptions(<<"A">>, "C", <<>>, "sum", NilV),
          PivotTableOptions(<<"Z">>, "C", <<"V">>, "sum", NilV),
          PivotTableOptions(<<"A">>, "Z", <<"V">>, "sum", NilV),
          PivotTableOptions(<<"A">>, "C", <<"Z">>, "sum", NilV)}

DoPivotTable(opts) ==
    /\ call = NoCall
    /\ call' = [op |-> "PivotTable", opts |-> opts]
    /\ result' = GroupResult(PivotTable(frame, opts))
    /\ UNCHANGED <<threads, locks, left, right, frame, view, heap>>

PivotInit ==
    \E rows \in SeqsUpTo(PivotRows, MaxPivotRows) :
        /\ frame = PivotFrameOf(rows)
        /\ heap = <<>>
        /\ view = NilDF
        /\ call = NoCall
        /\ result = NoResult
        /\ left = NilDF
        /\ right = NilDF
        /\ threads = <<>>
        /\ locks = <<>>

PivotNext == \E opts \in PivotCalls : DoPivotTable(opts)

PivotSpec == PivotInit /\ [][PivotNext]_vars

PivotDone == call # NoCall /\ call.op = "PivotTable" /\ result.err = ""

\* the index values of a result row
RowTuple(df, index, r) == [j \in 1..Len(index) |-> At(df.Columns[index[j]], r).val.v]

\* a tuple of strings is below another: at their first difference
RECURSIVE TupleLess(_, _)
TupleLess(a, b) ==
    IF Len(a) = 0 THEN FALSE
    ELSE IF Head(a) # Head(b) THEN StrLess(Head(a), Head(b))
    ELSE TupleLess(Tail(a), Tail(b))

\* no index value of the DataFrame holds the character that separates the
\* parts of an index key
NoSeparatorIn(df, index) ==
    \A j \in 1..Len(index) : \A i \in 1..DataFrameLen(df) :
        NUL \notin Range(At(df.Columns[index[j]], i).val.v)

\* C24 (rows and columns): the rows of a pivot table are in ascending order
\* of their index values, as long as none of these holds the separator of
\* the index key, and its value columns are in ascending order of the
\* distinct non-null values of the columns column
C24_AxesAscending ==
    (PivotDone /\ Len(call.opts.Values) = 1
        /\ NoSeparatorIn(frame, call.opts.Index)) =>
        /\ \A r \in 1..(Len(result.df.Index) - 1) :
               TupleLess(RowTuple(result.df, call.opts.Index, r),
                         RowTuple(result.df, call.opts.Index, r + 1))
        /\ SubSeq(result.df.ColumnOrder, Len(call.opts.Index) + 1,
                  Len(result.df.ColumnOrder))
           = [k \in 1..Cardinality({Sprint(v) : v \in Range(Present(frame.Columns["C"]))}) |->
                 Str(SortStrings({Sprint(v) : v \in Range(Present(frame.Columns["C"]))})[k])]

C24_AxesWitness ==
    /\ PivotDone
    /\ NoSeparatorIn(frame, call.opts.Index)
    /\ Len(call.opts.Values) = 1
    /\ Len(result.df.Index) = 2
    /\ Len(result.df.ColumnOrder) = 3

\* C24: the pivot table of a DataFrame is the pivot table of the same rows
\* in any other order
C24_RowOrderIrrelevant ==
    PivotDone =>
        \A order \in RowOrders(DataFrameLen(frame)) :
            PivotTable(PermuteRows(frame, order), call.opts).df = result.df

\* the sums of a pivot table differ with the order of the rows
C24_SumFollowsRowOrder ==
    /\ PivotDone
    /\ call.opts.AggFunc = "sum"
    /\ call.opts.Index = <<"A">>
    /\ Len(result.df.Index) = 1
    /\ \E order \in RowOrders(DataFrameLen(frame)) :
          PivotTable(PermuteRows(frame, order), call.opts).df # result.df

\* the rows of the input with a non-null value for a cell of the pivot table
MatchingRows(df, opts, indexKey, colVal, valCol) ==
    {i \in 1..DataFrameLen(df) :
        /\ IndexKey(df, opts.Index, i) = indexKey
        /\ ~IsNull(df.Columns[opts.Columns], i)
        /\ Sprint(At(df.Columns[opts.Columns], i).val) = colVal
        /\ ~IsNull(df.Columns[valCol], i)}

\* the cells of the pivot table without a matching non-null value: the result
\* row, the result column
EmptyCells ==
    LET keys == SortStrings({IndexKey(frame, call.opts.Index, i) :
                                i \in 1..DataFrameLen(frame)})
    IN  {cell \in [row : 1..Len(keys),
                   col : {PivotColName(call.opts, valCol, Sprint(v)) :
                             valCol \in Range(call.opts.Values),
                             v \in Range(Present(frame.Columns[call.opts.Columns]))}] :
            \E valCol \in Range(call.opts.Values),
               v \in Range(Present(frame.Columns[call.opts.Columns])) :
                /\ cell.col = PivotColName(call.opts, valCol, Sprint(v))
                /\ MatchingRows(frame, call.opts, keys[cell.row],
                                Sprint(v), valCol) = {}}

\* C25: a cell of a pivot table without a matching non-null value in the
\* input is null when no fill value is given, and holds the fill value when
\* one is given
C25_EmptyCell ==
    PivotDone =>
        \A cell \in EmptyCells :
            IF call.opts.FillValue = NilV
            THEN IsNull(result.df.Columns[cell.col], cell.row)
            ELSE /\ ~IsNull(result.df.Columns[cell.col], cell.row)
                 /\ At(result.df.Columns[cell.col], cell.row).val
                    = call.opts.FillValue

\* C25 (null or float64): a cell of a pivot table without a matching non-null
\* value in the input is null when no fill value is given, and holds the fill
\* value when that is a float64
C25_EmptyCellFloat64 ==
    (PivotDone /\ call.opts.FillValue.t \in {"nil", "float64"}) =>
        \A cell \in EmptyCells :
            IF call.opts.FillValue = NilV
            THEN IsNull(result.df.Columns[cell.col], cell.row)
            ELSE /\ ~IsNull(result.df.Columns[cell.col], cell.row)
                 /\ At(result.df.Columns[cell.col], cell.row).val
                    = call.opts.FillValue

C25_Filled ==
    /\ PivotDone
    /\ call.opts.FillValue.t = "float64"
    /\ EmptyCells # {}

\* an int fill value is given and a cell without values holds 0.0
C25_FillRefused ==
    /\ PivotDone
    /\ call.opts.FillValue = Val("int", 1)
    /\ \E cell \in EmptyCells :
          At(result.df.Columns[cell.col], cell.row).val = Val("float64", 0)

(***************************************************************************)
(* Melt (dataframe/pivot.go)                                               *)
(***************************************************************************)
\* resultCols[name] = series
Put(resultCols, name, series) ==
    [c \in DOMAIN resultCols \cup {name} |->
        IF c = name THEN series ELSE resultCols[c]]

\* the calls of Set, SetNull, Append and AppendNull on the result columns,
\* one after the other; what they return is dropped
RECURSIVE MeltFill(_, _)
MeltFill(resultCols, writes) ==
    IF Len(writes) = 0 THEN resultCols
    ELSE MeltFill(
             [resultCols EXCEPT ![Head(writes).col] =
                 CASE Head(writes).op = "SetNull" ->
                          SetNull(@, Head(writes).row).s
                   [] Head(writes).op = "Set" ->
                          SeriesSet(@, Head(writes).row, Head(writes).val).s
                   [] Head(writes).op = "AppendNull" -> AppendNull(@)
                   [] Head(writes).op = "Append" ->
                          SeriesAppend(@, Head(writes).val).s],
             Tail(writes))

\* the writes of result row resultIdx: source row i, the j-th value column
MeltWrites(df, opts, valueVars, i, j) ==
    LET resultIdx == (i - 1) * Len(valueVars) + j
        valCol == valueVars[j]
    IN  [d \in 1..Len(opts.IdVars) |->
            IF IsNull(df.Columns[opts.IdVars[d]], i)
            THEN [col |-> opts.IdVars[d], op |-> "SetNull", row |-> resultIdx,
                  val |-> NilV]
            ELSE [col |-> opts.IdVars[d], op |-> "Set", row |-> resultIdx,
                  val |-> At(df.Columns[opts.IdVars[d]], i).val]]
        \o <<[col |-> opts.VarName, op |-> "Set", row |-> resultIdx,
              val |-> Val("string", valCol)]>>
        \o <<IF IsNull(df.Columns[valCol], i)
             THEN [col |-> opts.ValueName, op |-> "AppendNull",
                   row |-> resultIdx, val |-> NilV]
             ELSE [col |-> opts.ValueName, op |-> "Append", row |-> resultIdx,
                   val |-> At(df.Columns[valCol], i).val]>>

\* the columns Melt unpivots
ValueVarsOf(df, opts) ==
    IF Len(opts.ValueVars) = 0
    THEN SelectSeq(df.ColumnOrder, LAMBDA c : c \notin Range(opts.IdVars))
    ELSE opts.ValueVars

MeltError(msg) == [err |-> msg, df |-> NilDF]

Melt(df, options) ==
    IF df.nil THEN MeltError("DataFrame is nil")
    ELSE
    LET opts == [options EXCEPT
                    !.VarName = IF @ = "" THEN "variable" ELSE @,
                    !.ValueName = IF @ = "" THEN "value" ELSE @]
        valueVars == ValueVarsOf(df, opts)
        numRows == DataFrameLen(df)
        numValueVars == Len(valueVars)
        resultRows == numRows * numValueVars
        idCols ==
            [c \in Range(opts.IdVars) |->
                NewSeriesOfTypeWithSize(DType(df.Columns[c]), resultRows)]
        resultCols ==
            Put(Put(idCols, opts.VarName,
                    NewSeriesFromData("string",
                        [p \in 1..resultRows |-> Zero("string")],
                        FALSE, <<>>).s),
                opts.ValueName, NewSeriesOfType("any"))
        resultOrder == opts.IdVars \o <<opts.VarName, opts.ValueName>>
    IN  IF \E c \in Range(opts.IdVars) : c \notin DOMAIN df.Columns
        THEN MeltError("id_vars column not found")
        ELSE IF \E c \in Range(opts.ValueVars) : c \notin DOMAIN df.Columns
        THEN MeltError("value_vars column not found")
        ELSE IF Len(valueVars) = 0 THEN MeltError("no columns to melt")
        ELSE [err |-> "",
              df |-> DataFrame(
                  MeltFill(resultCols,
                      FlattenSeq([i \in 1..numRows |->
                          FlattenSeq([j \in 1..numValueVars |->
                              MeltWrites(df, opts, valueVars, i, j)])])),
                  resultOrder, DefaultIndex(resultRows))]

(***************************************************************************)
(* The Melt runs: a DataFrame of an int64 column id, a float64 column P    *)
(* and a column value of any type, all holding nulls, then one Melt call   *)
(***************************************************************************)
MaxMeltRows == 2

MeltRows ==
    [id : {Val("int64", 1), Val("int64", 2), NilV},
     P : {Val("float64", 1), NilV},
     value : {Val("int64", 1), Val("string", "a"), NilV}]

\* the DataFrame of the given rows
MeltFrameOf(rows) ==
    DataFrame(
        [c \in {"id", "P", "value"} |->
            IF c = "id"
            THEN NewSeriesFromData("int64",
                     [i \in DOMAIN rows |->
                         IF rows[i].id = NilV THEN Zero("int64")
                         ELSE rows[i].id],
                     TRUE, [i \in DOMAIN rows |-> rows[i].id = NilV]).s
            ELSE IF c = "P"
            THEN NewSeriesFromData("float64",
                     [i \in DOMAIN rows |->
                         IF rows[i].P = NilV THEN Zero("float64")
                         ELSE rows[i].P],
                     TRUE, [i \in DOMAIN rows |-> rows[i].P = NilV]).s
            ELSE NewSeriesFromData("any",
                     [i \in DOMAIN rows |-> rows[i].value],
                     TRUE, [i \in DOMAIN rows |-> rows[i].value = NilV]).s],
        <<"id", "P", "value">>, DefaultIndex(Len(rows)))

MeltOptions(idVars, valueVars, varName, valueName) ==
    [IdVars |-> idVars, ValueVars |-> valueVars, VarName |-> varName,
     ValueName |-> valueName]

\* the options of the calls: identifier and value columns with the default
\* and with other names of the two new columns, names that are taken, and
\* the options Melt refuses
MeltCalls ==
    {MeltOptions(idVars, valueVars, names[1], names[2]) :
        idVars \in {<<>>, <<"id">>, <<"id", "P">>},
        valueVars \in {<<>>, <<"P">>, <<"P", "value">>},
        names \in {<<"", "">>, <<"var", "val">>}}
    \cup {MeltOptions(<<"value">>, <<"P">>, "", ""),
          MeltOptions(<<"id">>, <<"P">>, "id", ""),
          MeltOptions(<<"id">>, <<"P">>, "v", "v")}
    \cup {MeltOptions(<<"Z">>, <<"P">>, "", ""),
          MeltOptions(<<"id">>, <<"Z">>, "", ""),
          MeltOptions(<<"id", "P", "value">>, <<>>, "", "")}

DoMelt(opts) ==
    /\ call = NoCall
    /\ call' = [op |-> "Melt", opts |-> opts]
    /\ result' = GroupResult(Melt(frame, opts))
    /\ UNCHANGED <<threads, locks, left, right, frame, view, heap>>

MeltInit ==
    \E rows \in SeqsUpTo(MeltRows, MaxMeltRows) :
        /\ frame = MeltFrameOf(rows)
        /\ heap = <<>>
        /\ view = NilDF
        /\ call = NoCall
        /\ result = NoResult
        /\ left = NilDF
        /\ right = NilDF
        /\ threads = <<>>
        /\ locks = <<>>

MeltNext == \E opts \in MeltCalls : DoMelt(opts)

MeltSpec == MeltInit /\ [][MeltNext]_vars

MeltDone == call # NoCall /\ call.op = "Melt" /\ result.err = ""

\* the names of the two new columns of the call
VarNameOf(opts) == IF opts.VarName = "" THEN "variable" ELSE opts.VarName

ValueNameOf(opts) == IF opts.ValueName = "" THEN "value" ELSE opts.ValueName

\* the three kinds of output columns of the call bear different names
DistinctNames(opts) ==
    /\ VarNameOf(opts) # ValueNameOf(opts)
    /\ VarNameOf(opts) \notin Range(opts.IdVars)
    /\ ValueNameOf(opts) \notin Range(opts.IdVars)

\* the claim of C26 of the Melt call made
MeltedAsClaimed ==
    LET valueVars == ValueVarsOf(frame, call.opts)
        k == Len(valueVars)
        n == DataFrameLen(frame) * k
        out == result.df
    IN  /\ Len(out.Index) = n
        /\ \A c \in Range(out.ColumnOrder) : SeriesLen(out.Columns[c]) = n
        /\ \A i \in 1..DataFrameLen(frame) : \A j \in 1..k :
              /\ \A d \in 1..Len(call.opts.IdVars) :
                    At(out.Columns[call.opts.IdVars[d]], (i - 1) * k + j)
                    = At(frame.Columns[call.opts.IdVars[d]], i)
              /\ At(out.Columns[VarNameOf(call.opts)], (i - 1) * k + j)
                 = [val |-> Val("string", valueVars[j]), err |-> FALSE]
              /\ At(out.Columns[ValueNameOf(call.opts)], (i - 1) * k + j)
                 = At(frame.Columns[valueVars[j]], i)

\* C26: Melt returns Len(df) * len(valueVars) rows in every column and in the
\* index, and row i*k + j carries the identifier values of source row i, the
\* name of the j-th value column and the source cell of row i in it, nulls
\* as nulls
C26_Melt == MeltDone => MeltedAsClaimed

\* C26 (distinct names): the same, for calls whose identifier columns,
\* variable column and value column bear different names
C26_MeltDistinctNames ==
    (MeltDone /\ DistinctNames(call.opts)) => MeltedAsClaimed

C26_Witness ==
    /\ MeltDone
    /\ DistinctNames(call.opts)
    /\ Len(ValueVarsOf(frame, call.opts)) = 2
    /\ Len(call.opts.IdVars) = 1
    /\ DataFrameLen(frame) = 2
    /\ IsNull(frame.Columns["id"], 1)
    /\ ~IsNull(frame.Columns["id"], 2)
    /\ IsNull(frame.Columns["P"], 2)
    /\ ~IsNull(frame.Columns["P"], 1)
    /\ IsNull(result.df.Columns["id"], 1)

\* the identifier column named as the value column is lost
C26_IdValuesLost ==
    /\ MeltDone
    /\ call.opts.IdVars = <<"value">>
    /\ ValueNameOf(call.opts) = "value"
    /\ \E i \in 1..DataFrameLen(frame) :
          At(result.df.Columns["value"], i) # At(frame.Columns["value"], i)

(***************************************************************************)
(* Rename beside the operations that read the column map.  Rename changes  *)
(* the map and ColumnOrder entry by entry under the write lock of the      *)
(* DataFrame; Select, PivotTable and Melt read them under its read lock,   *)
(* Merge and GroupBy without a lock.  A read that no lock orders after or  *)
(* before the writes of Rename is a data race: it sees the map as it is at *)
(* that moment, or the runtime stops the program.                          *)
(***************************************************************************)
\* Rename calls of one run
MaxRaceRenames == 1

RaceReaders == {"Merge", "GroupBy", "Select", "PivotTable", "Melt"}

\* the steps of an operation on the DataFrame: its lock calls, its reads of
\* the column map and ColumnOrder (the validation of the column names, then
\* the pass over the columns) and, for Rename, its writes
RaceProg(op) ==
    CASE op.name = "Rename" ->
            <<Instr("Lock", "df"), Instr("Check", "df")>>
            \o FlattenSeq([k \in 1..Len(op.order) |->
                   <<Instr("Delete", op.order[k]), Instr("Insert", op.order[k]),
                     Instr("Reorder", op.order[k])>>])
            \o <<Instr("Unlock", "df")>>
      [] op.name \in {"Merge", "GroupBy"} ->
            <<Instr("Read", "df"), Instr("Read", "df")>>
      [] op.name \in {"Select", "PivotTable", "Melt"} ->
            <<Instr("RLock", "df"), Instr("Read", "df"), Instr("Read", "df"),
              Instr("RUnlock", "df")>>

RaceIdle == [op |-> [name |-> "none"], pc |-> 0, held |-> NilSeries, seen |-> <<>>]

RaceRunning(t) == threads[t] # RaceIdle /\ threads[t].pc <= Len(RaceProg(threads[t].op))

RaceCurrent(t) == RaceProg(threads[t].op)[threads[t].pc]

\* thread t is at a step of the kind do, and the program has not been stopped
AtStep(t, do) == result = NoResult /\ RaceRunning(t) /\ RaceCurrent(t).do = do

RaceAdvance(t) == threads' = [threads EXCEPT ![t].pc = @ + 1]

\* what a read sees: the column map and ColumnOrder of that moment
Observed(df) == [Columns |-> df.Columns, ColumnOrder |-> df.ColumnOrder]

RaceStart(t, op) ==
    /\ result = NoResult
    /\ ~RaceRunning(t)
    /\ op.name = "Rename" => call.renames < MaxRaceRenames
    /\ threads' = [threads EXCEPT ![t] = [op |-> op, pc |-> 1,
                                         held |-> NilSeries, seen |-> <<>>]]
    /\ call' = [call EXCEPT !.renames = IF op.name = "Rename" THEN @ + 1 ELSE @]
    /\ UNCHANGED <<locks, left, right, result, frame, view, heap>>

RaceRLock(t) ==
    /\ AtStep(t, "RLock")
    /\ locks.df.writer = 0 /\ locks.df.pending = 0
    /\ locks' = [locks EXCEPT !.df.readers[t] = @ + 1]
    /\ RaceAdvance(t)
    /\ UNCHANGED <<left, right, call, result, frame, view, heap>>

RaceRUnlock(t) ==
    /\ AtStep(t, "RUnlock")
    /\ locks' = [locks EXCEPT !.df.readers[t] = @ - 1]
    /\ RaceAdvance(t)
    /\ UNCHANGED <<left, right, call, result, frame, view, heap>>

RaceLockAnnounce(t) ==
    /\ AtStep(t, "Lock")
    /\ locks.df.writer = 0 /\ locks.df.pending = 0
    /\ locks' = [locks EXCEPT !.df.pending = t]
    /\ UNCHANGED <<threads, left, right, call, result, frame, view, heap>>

RaceLockAcquire(t) ==
    /\ AtStep(t, "Lock")
    /\ locks.df.pending = t
    /\ \A u \in DOMAIN threads : locks.df.readers[u] = 0
    /\ locks' = [locks EXCEPT !.df.pending = 0, !.df.writer = t]
    /\ RaceAdvance(t)
    /\ UNCHANGED <<left, right, call, result, frame, view, heap>>

\* Rename compares the keys of columns with the column names: unless all
\* of them are names of ColumnOrder it returns, which unlocks
RaceCheck(t) ==
    /\ AtStep(t, "Check")
    /\ threads' = [threads EXCEPT ![t].pc =
                      IF Compare(GetMapKeys(threads[t].op.columns),
                                 Intersect(GetMapKeys(threads[t].op.columns),
                                           ToSet(frame.ColumnOrder)))
                      THEN @ + 1 ELSE Len(RaceProg(threads[t].op))]
    /\ UNCHANGED <<locks, left, right, call, result, frame, view, heap>>

\* series, ok := df.Columns[original]; delete(df.Columns, original)
RaceDelete(t) ==
    /\ AtStep(t, "Delete")
    /\ IF RaceCurrent(t).on \in DOMAIN frame.Columns
       THEN /\ frame' = [frame EXCEPT !.Columns =
                            [n \in DOMAIN @ \ {RaceCurrent(t).on} |-> @[n]]]
            /\ threads' = [threads EXCEPT
                              ![t].pc = @ + 1,
                              ![t].held = frame.Columns[RaceCurrent(t).on]]
       ELSE /\ frame' = frame
            /\ threads' = [threads EXCEPT ![t].pc = @ + 1,
                                          ![t].held = NilSeries]
    /\ UNCHANGED <<locks, left, right, call, result, view, heap>>

\* df.Columns[new] = series
RaceInsert(t) ==
    /\ AtStep(t, "Insert")
    /\ frame' = IF threads[t].held = NilSeries THEN frame
                ELSE [frame EXCEPT !.Columns =
                         Put(@, threads[t].op.columns[RaceCurrent(t).on],
                             threads[t].held)]
    /\ RaceAdvance(t)
    /\ UNCHANGED <<locks, left, right, call, result, view, heap>>

\* the order slice: every entry equal to the old name becomes the new one
RaceReorder(t) ==
    /\ AtStep(t, "Reorder")
    /\ frame' = [frame EXCEPT !.ColumnOrder =
                    [i \in DOMAIN @ |->
                        IF @[i] = RaceCurrent(t).on
                        THEN threads[t].op.columns[RaceCurrent(t).on]
                        ELSE @[i]]]
    /\ RaceAdvance(t)
    /\ UNCHANGED <<locks, left, right, call, result, view, heap>>

\* Rename returns: the DataFrame as it is now is the one after the Rename
RaceUnlock(t) ==
    /\ AtStep(t, "Unlock")
    /\ locks' = [locks EXCEPT !.df.writer = 0]
    /\ heap' = Append(heap, Observed(frame))
    /\ RaceAdvance(t)
    /\ UNCHANGED <<left, right, call, result, frame, view>>

\* a read of the column map and of ColumnOrder
RaceRead(t) ==
    /\ AtStep(t, "Read")
    /\ threads' = [threads EXCEPT ![t].pc = @ + 1,
                                  ![t].seen = Append(@, Observed(frame))]
    /\ UNCHANGED <<locks, left, right, call, result, frame, view, heap>>

\* a read of the map while another thread writes it: the runtime may stop
\* the program ("fatal error: concurrent map read and map write")
RaceFatal(t) ==
    /\ AtStep(t, "Read")
    /\ \E u \in DOMAIN threads \ {t} :
          RaceRunning(u) /\ RaceCurrent(u).do \in {"Delete", "Insert"}
    /\ result' = [err |-> "concurrent map read and map write", df |-> NilDF,
                  rows |-> <<>>]
    /\ UNCHANGED <<threads, locks, left, right, call, frame, view, heap>>

\* the Rename calls: a mapping and the order in which its entries are visited
RaceRenames ==
    {op \in [name : {"Rename"}, columns : RenameMaps \ {<<>>},
             order : UNION {[1..k -> ColNames] : k \in 1..MaxRenames}] :
        op.order \in MapOrders(op.columns)}

RaceInit ==
    /\ frame = DataFrame(
                   [c \in {"A", "B"} |->
                       NewSeriesFromData("int64",
                           <<Val("int64", IF c = "A" THEN 1 ELSE 2)>>,
                           FALSE, <<>>).s],
                   <<"A", "B">>, DefaultIndex(1))
    /\ threads = [t \in 1..2 |-> RaceIdle]
    /\ locks = [df |-> [writer |-> 0, pending |-> 0,
                        readers |-> [t \in 1..2 |-> 0]]]
    /\ heap = <<Observed(frame)>>
    /\ call = [op |-> "Race", renames |-> 0]
    /\ result = NoResult
    /\ view = NilDF
    /\ left = NilDF
    /\ right = NilDF

RaceNext ==
    \/ \E t \in 1..2, op \in RaceRenames : RaceStart(t, op)
    \/ \E t \in 1..2, n \in RaceReaders : RaceStart(t, [name |-> n])
    \/ \E t \in 1..2 : RaceRLock(t)
    \/ \E t \in 1..2 : RaceRUnlock(t)
    \/ \E t \in 1..2 : RaceLockAnnounce(t)
    \/ \E t \in 1..2 : RaceLockAcquire(t)
    \/ \E t \in 1..2 : RaceCheck(t)
    \/ \E t \in 1..2 : RaceDelete(t)
    \/ \E t \in 1..2 : RaceInsert(t)
    \/ \E t \in 1..2 : RaceReorder(t)
    \/ \E t \in 1..2 : RaceUnlock(t)
    \/ \E t \in 1..2 : RaceRead(t)
    \/ \E t \in 1..2 : RaceFatal(t)

RaceSpec == RaceInit /\ [][RaceNext]_vars

\* what thread t has seen is the column map and ColumnOrder as they were
\* before a Rename or as they are after it, and the same at every read
SeenWhole(t) ==
    \E whole \in Range(heap) :
        \A k \in DOMAIN threads[t].seen : threads[t].seen[k] = whole

\* C27: an operation that runs beside a Rename sees the column map and
\* ColumnOrder entirely as before the Rename or entirely as after it, and the
\* program is not stopped
C27_RenameAtomic ==
    /\ result = NoResult
    /\ \A t \in DOMAIN threads :
          threads[t].op.name \in RaceReaders => SeenWhole(t)

\* C27 (under the read lock): Select, PivotTable and Melt see the column map
\* and ColumnOrder entirely as before a Rename or entirely as after it
C27_LockedAtomic ==
    \A t \in DOMAIN threads :
        threads[t].op.name \in {"Select", "PivotTable", "Melt"} =>
            SeenWhole(t)

C27_LockedWitness ==
    \E t \in DOMAIN threads :
        /\ threads[t].op.name = "Melt"
        /\ Len(threads[t].seen) = 2
        /\ Len(heap) = 2
        /\ threads[t].seen[1] = heap[2]
        /\ heap[2] # heap[1]

\* a Merge has seen a column map without the name ColumnOrder lists
C27_MergeSeesMixture ==
    \E t \in DOMAIN threads :
        /\ threads[t].op.name = "Merge"
        /\ \E k \in DOMAIN threads[t].seen :
              Range(threads[t].seen[k].ColumnOrder)
                  # DOMAIN threads[t].seen[k].Columns

C27_MapRaceStops == result.err = "concurrent map read and map write"

(***************************************************************************)
(* The Merge runs over column names: the right DataFrame has, beside the   *)
(* join column ID, a column Age or a column Name as the left one has, of   *)
(* the element type of the left column or of another                       *)
(***************************************************************************)
NamedRightFrames(maxRows) ==
    UNION {{DataFrame([c \in {"ID", name} |->
                          IF c = "ID" THEN NewSeriesWithData("int64", k).s
                          ELSE NewSeriesWithData(t,
                                   [p \in 1..Len(k) |->
                                       IF p \in z THEN NilV
                                       ELSE Val(t, 10 + p)]).s],
                      <<"ID", name>>, DefaultIndex(Len(k))) :
               <<k, z>> \in UNION {[1..n -> KeyCells("int64")] \X PayloadNulls(n) :
                                     n \in 0..maxRows}} :
           <<name, t>> \in {"Name", "Age"} \X {"string", "int64"}}

MergeNamesInit ==
    /\ left \in LeftFrames(MaxArgRows)
    /\ right \in NamedRightFrames(MaxArgRows)
    /\ call = NoCall
    /\ result = NoResult
    /\ frame = NilDF
    /\ view = NilDF
    /\ heap = <<>>
    /\ threads = <<>>
    /\ locks = <<>>

MergeNamesNext == \E how \in MergeHows : DoMerge(FALSE, FALSE, "ID", how)

MergeNamesSpec == MergeNamesInit /\ [][MergeNamesNext]_vars

\* the DataFrame invariants: ColumnOrder without duplicates, listing exactly
\* the keys of the column map, and every column as long as the index
WellFormed(df) ==
    /\ \A i, j \in DOMAIN df.ColumnOrder :
          df.ColumnOrder[i] = df.ColumnOrder[j] => i = j
    /\ Range(df.ColumnOrder) = DOMAIN df.Columns
    /\ \A c \in DOMAIN df.Columns : SeriesLen(df.Columns[c]) = Len(df.Index)

MergeReturned == call # NoCall /\ call.op = "Merge" /\ result.err = ""

\* C28: a DataFrame returned by Merge satisfies the DataFrame invariants,
\* also when a column name other than the join column is in both inputs
C28_MergeWellFormed == MergeReturned => WellFormed(result.df)

\* C28 (no shared name): a DataFrame returned by Merge satisfies the
\* DataFrame invariants when the join column is the only shared name
C28_DistinctNamesWellFormed ==
    (MergeReturned /\ DOMAIN left.Columns \cap DOMAIN right.Columns = {"ID"})
        => WellFormed(result.df)

C28_DistinctNamesWitness ==
    /\ MergeReturned
    /\ DOMAIN left.Columns \cap DOMAIN right.Columns = {"ID"}
    /\ Len(result.df.Index) = 2
    /\ Len(result.df.ColumnOrder) = 3

\* a Merge of two DataFrames with a column Name returns the name twice in
\* ColumnOrder, over one Series, which holds the values of the right column
C28_NameTwice ==
    /\ MergeReturned
    /\ result.df.ColumnOrder = <<"ID", "Name", "Name">>
    /\ DOMAIN result.df.Columns = {"ID", "Name"}
    /\ Len(result.df.Index) = 1
    /\ At(result.df.Columns["Name"], 1).val = At(right.Columns["Name"], 1).val
    /\ At(result.df.Columns["Name"], 1).val # At(left.Columns["Name"], 1).val

\* rows i and j of the DataFrame have equal values, or null both, in every
\* by-column
SameTuple(df, by, i, j) ==
    \A c \in Range(by) : At(df.Columns[c], i) = At(df.Columns[c], j)

\* rows i and j are in one group of the grouping
SameGroup(gb, i, j) ==
    \E key \in DOMAIN gb.groups :
        i \in Range(gb.groups[key]) /\ j \in Range(gb.groups[key])

\* C29: GroupBy puts two rows into the same group if and only if they have
\* equal values, or null both, in every by-column
C29_GroupsAreTuples ==
    AggregationDone =>
        \A i, j \in 1..DataFrameLen(frame) :
            SameGroup(GroupBy(frame, call.by, call.axis).gb, i, j)
            <=> SameTuple(frame, call.by, i, j)

\* C29 (one by-column): over one by-column of strings or of float64, GroupBy
\* puts two rows into the same group if and only if their values are equal
\* or null both
C29_OneColumnGroups ==
    (AggregationDone /\ Len(call.by) = 1) =>
        \A i, j \in 1..DataFrameLen(frame) :
            SameGroup(GroupBy(frame, call.by, call.axis).gb, i, j)
            <=> SameTuple(frame, call.by, i, j)

C29_OneColumnWitness ==
    /\ AggregationDone
    /\ call.by = <<"V">>
    /\ DataFrameLen(frame) = 3
    /\ IsNull(frame.Columns["V"], 1) /\ IsNull(frame.Columns["V"], 3)
    /\ ~IsNull(frame.Columns["V"], 2)
    /\ Len(result.df.Index) = 2

\* two rows that differ in both by-columns are in one group
C29_TuplesMerged ==
    /\ AggregationDone
    /\ call.by = <<"A", "B">>
    /\ DataFrameLen(frame) = 2
    /\ At(frame.Columns["A"], 1) # At(frame.Columns["A"], 2)
    /\ At(frame.Columns["B"], 1) # At(frame.Columns["B"], 2)
    /\ SameGroup(GroupBy(frame, call.by, call.axis).gb, 1, 2)

\* a Merge call on two DataFrames that hold the join column, of a kind Merge
\* knows, has been made
MergeCalled ==
    /\ call # NoCall /\ call.op = "Merge"
    /\ ~call.dfNil /\ ~call.otherNil
    /\ HasColumn(left, call.on) /\ HasColumn(right, call.on)
    /\ call.how \in MergeHows

\* C30: Merge returns a DataFrame and no error for two DataFrames that hold
\* the join column and a kind it knows, whatever the element types of the
\* columns
C30_MergeSucceeds == MergeCalled => (result.err = "" /\ ~result.df.nil)

\* C30 (one key type): Merge returns a DataFrame and no error when the join
\* columns of the two DataFrames have the same element type
C30_SameKeyTypeSucceeds ==
    (MergeCalled /\ DType(left.Columns[call.on]) = DType(right.Columns[call.on]))
        => (result.err = "" /\ ~result.df.nil)

C30_SameKeyTypeWitness ==
    /\ MergeCalled
    /\ DType(left.Columns[call.on]) = DType(right.Columns[call.on])
    /\ call.how = "full"
    /\ SeriesLen(left.Columns[call.on]) = 2
    /\ SeriesLen(right.Columns[call.on]) = 2
    /\ Len(result.df.Index) = 4

\* a right merge of an int64 join column with a string one fails
C30_KeyTypeRefused ==
    /\ MergeCalled
    /\ call.how = "right"
    /\ DType(left.Columns[call.on]) = "int64"
    /\ DType(right.Columns[call.on]) = "string"
    /\ SeriesLen(right.Columns[call.on]) = 1
    /\ result.err = "type mismatch"
    /\ result.df.nil

====
